---- MODULE Spec2Model ----
(***************************************************************************)
(* A model of the analytics engine of the dYdX trading dashboard: the      *)
(* drawdown, VaR/CVaR, ratio and return-derivation functions, each         *)
(* translated from its JavaScript source.  A call of an engine function is *)
(* one action: it draws the arguments from bounded sets and records the    *)
(* arguments, the returned value and the caller's array after the call.    *)
(***************************************************************************)
EXTENDS Integers, Sequences, FiniteSets, TLC

VARIABLES op, args, ret, after, prev,
          \* DashboardApp and its timers
          currentAddress, currentData, updateInterval, timers,
          \* DataService, its client calls in flight and the clock
          cache, subscribers, pending, now

\* the engine call being observed
callVars == <<op, args, ret, after, prev>>

\* the dashboard: the application, the data service and their environment
dashVars == <<currentAddress, currentData, updateInterval, timers,
              cache, subscribers, pending, now>>

vars == <<op, args, ret, after, prev,
          currentAddress, currentData, updateInterval, timers,
          cache, subscribers, pending, now>>

(***************************************************************************)
(* Bounds of the model.                                                    *)
(***************************************************************************)
\* longest equity series enumerated
MaxLen == 4
\* largest equity sample enumerated (samples range over 1..MaxEquity)
MaxEquity == 5

(***************************************************************************)
(* JavaScript values.  A number is kept exactly, as (n/d) * sqrt(r) with   *)
(* d > 0 and r a square-free positive integer (r = 1: a rational), so that *)
(* Math.sqrt of a rational and the products and quotients built from it    *)
(* stay exact.  NaN, the infinities, undefined and an object carrying an   *)
(* `equity` field are values of their own.                                 *)
(***************************************************************************)
Abs(k) == IF k < 0 THEN -k ELSE k

Sign(k) == IF k < 0 THEN -1 ELSE IF k = 0 THEN 0 ELSE 1

RECURSIVE GCD(_, _)
GCD(a, b) == IF b = 0 THEN Abs(a) ELSE GCD(b, a % b)

\* a power of two b with b*b >= k
RECURSIVE RootBound(_, _)
RootBound(k, b) == IF b * b >= k THEN b ELSE RootBound(k, 2 * b)

\* the largest s with s*s dividing k (k >= 1)
SquarePart(k) ==
    IF k = 1 THEN 1
    ELSE CHOOSE s \in 1..RootBound(k, 1) :
             /\ k % (s * s) = 0
             /\ \A t \in (s + 1)..RootBound(k, 1) : k % (t * t) # 0

\* the number (n/d) * sqrt(r) in lowest terms
Surd(n, d, r) ==
    IF n = 0 \/ r = 0 THEN [t |-> "num", n |-> 0, d |-> 1, r |-> 1]
    ELSE LET s  == SquarePart(r)
             nn == n * s * Sign(d)
             dd == Abs(d)
             g  == GCD(nn, dd)
         IN  [t |-> "num", n |-> nn \div g, d |-> dd \div g, r |-> r \div (s * s)]

Rat(n, d) == Surd(n, d, 1)

Num(k) == [t |-> "num", n |-> k, d |-> 1, r |-> 1]

NaN == [t |-> "nan", n |-> 0, d |-> 1, r |-> 1]

Infinity == [t |-> "inf", n |-> 1, d |-> 1, r |-> 1]

Undefined == [t |-> "undef", n |-> 0, d |-> 1, r |-> 1]

\* the decimal string of the integer k, as the indexer's API gives a number; strings
\* occur only as operands of `||` and of parseFloat
Str(k) == [t |-> "str", n |-> k, d |-> 1, r |-> 1]

\* the record {equity: k}
EquityPoint(k) == [t |-> "obj", n |-> k, d |-> 1, r |-> 1]

IsNum(x) == x.t = "num"

\* null
Null == [t |-> "null", n |-> 0, d |-> 1, r |-> 1]

\* what a call gives when it throws a TypeError instead of returning
Thrown == [t |-> "throw", n |-> 0, d |-> 1, r |-> 1]

\* ToNumber: null converts to 0, an object or undefined to NaN
ToNumber(x) ==
    CASE x.t \in {"num", "inf"} -> x
      [] x.t = "null" -> [t |-> "num", n |-> 0, d |-> 1, r |-> 1]
      [] OTHER -> NaN

\* an infinity of the sign of k
Inf(k) == [t |-> "inf", n |-> Sign(k), d |-> 1, r |-> 1]

\* -a
JsNeg(a) ==
    LET x == ToNumber(a)
    IN  IF x.t = "nan" THEN NaN ELSE [x EXCEPT !.n = -x.n]

\* a + b; two finite numbers are added when they are multiples of the same root
JsAdd(a, b) ==
    LET x == ToNumber(a)
        y == ToNumber(b)
    IN  CASE x.t = "nan" \/ y.t = "nan" -> NaN
          [] x.t = "inf" /\ y.t = "inf" -> IF x.n = y.n THEN x ELSE NaN
          [] x.t = "inf" -> x
          [] y.t = "inf" -> y
          [] x.n = 0 -> y
          [] y.n = 0 -> x
          [] x.r = y.r -> Surd(x.n * y.d + y.n * x.d, x.d * y.d, x.r)

\* a - b
JsSub(a, b) == JsAdd(a, JsNeg(b))

\* a * b
JsMul(a, b) ==
    LET x == ToNumber(a)
        y == ToNumber(b)
    IN  CASE x.t = "nan" \/ y.t = "nan" -> NaN
          [] x.t = "inf" \/ y.t = "inf" -> IF x.n * y.n = 0 THEN NaN ELSE Inf(x.n * y.n)
          [] OTHER -> Surd(x.n * y.n, x.d * y.d, x.r * y.r)

\* a / b   (0/0 is NaN, x/0 is an infinity)
JsDiv(a, b) ==
    LET x == ToNumber(a)
        y == ToNumber(b)
    IN  CASE x.t = "nan" \/ y.t = "nan" -> NaN
          [] x.t = "inf" /\ y.t = "inf" -> NaN
          [] x.t = "inf" -> Inf(x.n * (IF y.n < 0 THEN -1 ELSE 1))
          [] y.t = "inf" -> Num(0)
          [] y.n = 0 /\ x.n = 0 -> NaN
          [] y.n = 0 -> Inf(x.n)
          [] OTHER -> Surd(x.n * y.d * Sign(y.n), x.d * Abs(y.n) * y.r, x.r * y.r)

\* a < b; any comparison with NaN is false
JsLt(a, b) ==
    LET x == ToNumber(a)
        y == ToNumber(b)
        \* sign(v) * v^2 as a rational numerator over a common denominator
        sq(v, w) == Sign(v.n) * v.n * v.n * v.r * w.d * w.d
    IN  CASE x.t = "nan" \/ y.t = "nan" -> FALSE
          [] x.t = "inf" -> x.n < 0 /\ ~(y.t = "inf" /\ y.n < 0)
          [] y.t = "inf" -> y.n > 0
          [] x.r = y.r -> x.n * y.d < y.n * x.d
          [] OTHER -> sq(x, y) < sq(y, x)

JsGt(a, b) == JsLt(b, a)

\* a >= b
JsGe(a, b) == ToNumber(a).t # "nan" /\ ToNumber(b).t # "nan" /\ ~JsLt(a, b)

JsLe(a, b) == JsGe(b, a)

\* Math.abs
JsAbs(a) ==
    LET x == ToNumber(a)
    IN  IF x.t = "nan" THEN NaN ELSE [x EXCEPT !.n = Abs(x.n)]

\* x || 0 : 0, NaN, null and undefined are falsy
OrZero(x) == IF x.t \in {"nan", "undef", "null"} \/ (IsNum(x) /\ x.n = 0) THEN Num(0) ELSE x

\* x || y
OrElse(x, y) == IF OrZero(x) = Num(0) THEN y ELSE x

\* Math.min(a, b) and Math.max(a, b): NaN when either is
JsMin(a, b) ==
    CASE ToNumber(a).t = "nan" \/ ToNumber(b).t = "nan" -> NaN
      [] JsLt(b, a) -> ToNumber(b)
      [] OTHER -> ToNumber(a)

JsMax(a, b) ==
    CASE ToNumber(a).t = "nan" \/ ToNumber(b).t = "nan" -> NaN
      [] JsGt(b, a) -> ToNumber(b)
      [] OTHER -> ToNumber(a)

\* an array argument that may be missing: `items` is the array when one is passed
Arr(items) == [defined |-> TRUE, items |-> items]

NoArr == [defined |-> FALSE, items |-> <<>>]

Optional(S) == {Arr(a) : a \in S} \cup {NoArr}

\* parseFloat: a finite number or an infinity is itself, a decimal string is its number,
\* anything else is NaN
ParseFloat(x) ==
    CASE x.t \in {"num", "inf"} -> x
      [] x.t = "str" -> Num(x.n)
      [] OTHER -> NaN

\* Math.floor of a rational, as an integer
JsFloor(x) == x.n \div x.d

\* Math.sqrt, of a rational or an infinity
JsSqrt(x) ==
    CASE x.t = "inf" /\ x.n > 0 -> x
      [] IsNum(x) /\ x.n < 0 -> NaN
      [] IsNum(x) /\ x.r = 1 -> Surd(1, x.d, x.n * x.d)
      [] x.t \notin {"num", "inf"} \/ x.t = "inf" -> NaN

\* arr[i] at the 0-based index i: undefined outside the array
At(arr, i) == IF i >= 0 /\ i < Len(arr) THEN arr[i + 1] ELSE Undefined

\* arr.reduce((sum, x) => sum + x, 0)
RECURSIVE SumOf(_)
SumOf(arr) == IF Len(arr) = 0 THEN Num(0) ELSE JsAdd(SumOf(SubSeq(arr, 1, Len(arr) - 1)), arr[Len(arr)])

\* Array.prototype.sort((a, b) => a - b): stable, ascending
RECURSIVE InsertAsc(_, _)
InsertAsc(sorted, x) ==
    IF Len(sorted) = 0 THEN <<x>>
    ELSE IF JsLt(x, sorted[Len(sorted)])
         THEN Append(InsertAsc(SubSeq(sorted, 1, Len(sorted) - 1), x), sorted[Len(sorted)])
         ELSE Append(sorted, x)

RECURSIVE SortAsc(_)
SortAsc(arr) ==
    IF Len(arr) = 0 THEN <<>>
    ELSE InsertAsc(SortAsc(SubSeq(arr, 1, Len(arr) - 1)), arr[Len(arr)])

\* arr.sort(cmp) sorts arr itself and returns it: had a function sorted its argument,
\* the caller's array would come back sorted
SortInPlace(arr) == [caller |-> SortAsc(arr), sorted |-> SortAsc(arr)]

\* [...arr].sort(cmp): the spread makes a new array and the sort acts on that one
SpreadSort(arr) == [caller |-> arr, sorted |-> SortAsc(arr)]

(***************************************************************************)
(* Equity series: bare numbers, or records carrying an `equity` field.     *)
(***************************************************************************)
SeqsUpTo(S, k) == UNION {[1..m -> S] : m \in 0..k}

EquitySeries ==
    SeqsUpTo(1..MaxEquity, MaxLen)
        \cup {<<100, 80, 90, 70, 120>>, <<100, 110, 120, 130>>, <<100, 70, 80, 100>>}

AsNumbers(v) == [i \in 1..Len(v) |-> Num(v[i])]

AsRecords(v) == [i \in 1..Len(v) |-> EquityPoint(v[i])]

\* typeof e === 'object' ? e.equity : e
PointValue(e) == IF e.t = "obj" THEN Num(e.n) ELSE e

(***************************************************************************)
(* calculateMaxDrawdown                                                    *)
(***************************************************************************)
\* the step with `drawdown >= maxDrawdown`: the trough moves to the last index
\* reaching the worst drawdown
MaxDrawdownStepLastTrough(st, e, i) ==
    LET value == PointValue(e)
    IN  IF JsGt(value, st.peak)
        THEN [st EXCEPT !.peak = value, !.peakIndex = i,
                        !.currentDuration = 0, !.drawdownStart = i]
        ELSE LET currentDuration == i - st.drawdownStart
                 drawdown        == JsSub(st.peak, value)
                 drawdownPct     == JsMul(JsDiv(drawdown, st.peak), Num(100))
             IN  IF JsGe(drawdown, st.maxDrawdown)
                 THEN [st EXCEPT !.currentDuration = currentDuration,
                                 !.maxDrawdown = drawdown,
                                 !.maxDrawdownPct = drawdownPct,
                                 !.troughIndex = i,
                                 !.maxDuration = currentDuration]
                 ELSE [st EXCEPT !.currentDuration = currentDuration]

\* one iteration of the loop, at the 0-based index i
MaxDrawdownStep(st, e, i) ==
    LET value == PointValue(e)
    IN  IF JsGt(value, st.peak)
        THEN [st EXCEPT !.peak = value, !.peakIndex = i,
                        !.currentDuration = 0, !.drawdownStart = i]
        ELSE LET currentDuration == i - st.drawdownStart
                 drawdown        == JsSub(st.peak, value)
                 drawdownPct     == JsMul(JsDiv(drawdown, st.peak), Num(100))
             IN  IF JsGt(drawdown, st.maxDrawdown)
                 THEN [st EXCEPT !.currentDuration = currentDuration,
                                 !.maxDrawdown = drawdown,
                                 !.maxDrawdownPct = drawdownPct,
                                 !.troughIndex = i,
                                 !.maxDuration = currentDuration]
                 ELSE [st EXCEPT !.currentDuration = currentDuration]

RECURSIVE MaxDrawdownLoop(_, _, _)
MaxDrawdownLoop(equityCurve, i, st) ==
    IF i >= Len(equityCurve) THEN st
    ELSE MaxDrawdownLoop(equityCurve, i + 1, MaxDrawdownStep(st, equityCurve[i + 1], i))

calculateMaxDrawdown(equityCurve) ==
    IF Len(equityCurve) = 0
    THEN [value |-> Num(0), percentage |-> Num(0), duration |-> 0]
    ELSE LET st == MaxDrawdownLoop(equityCurve, 0,
                       [maxDrawdown |-> Num(0), maxDrawdownPct |-> Num(0),
                        peak |-> equityCurve[1], peakIndex |-> 0, troughIndex |-> 0,
                        maxDuration |-> 0, currentDuration |-> 0, drawdownStart |-> 0])
         IN  [value |-> st.maxDrawdown, percentage |-> st.maxDrawdownPct,
              duration |-> st.maxDuration, peakIndex |-> st.peakIndex,
              troughIndex |-> st.troughIndex]

(***************************************************************************)
(* calculateDrawdownPeriods                                                *)
(***************************************************************************)
Thresholds == {0, 25}

\* the initial value of currentDrawdown
EmptyPeriod ==
    [startIndex |-> 0, endIndex |-> 0, peakValue |-> Num(0), troughValue |-> Num(0),
     depth |-> Num(0), depthPct |-> Num(0), duration |-> 0, recovery |-> 0]

\* one iteration of the loop, at the 0-based index i
DrawdownPeriodsStep(st, e, i, threshold) ==
    LET value == PointValue(e)
    IN  IF JsGe(value, st.peak)
        THEN IF st.inDrawdown
             THEN LET closed == [st.currentDrawdown EXCEPT
                                    !.endIndex = i,
                                    !.recovery = i - st.currentDrawdown.startIndex
                                                   - st.currentDrawdown.duration]
                  IN  [st EXCEPT !.currentDrawdown = closed,
                                 !.drawdowns = IF JsGt(closed.depthPct, threshold)
                                               THEN Append(st.drawdowns, closed)
                                               ELSE st.drawdowns,
                                 !.inDrawdown = FALSE,
                                 !.peak = value]
             ELSE [st EXCEPT !.peak = value]
        ELSE LET drawdownPct == JsMul(JsDiv(JsSub(st.peak, value), st.peak), Num(100))
             IN  IF ~st.inDrawdown
                 THEN [st EXCEPT !.inDrawdown = TRUE,
                                 !.drawdownStart = i - 1,
                                 !.currentDrawdown =
                                     [startIndex |-> i - 1, endIndex |-> i,
                                      peakValue |-> st.peak, troughValue |-> value,
                                      depth |-> JsSub(st.peak, value),
                                      depthPct |-> drawdownPct,
                                      duration |-> 1, recovery |-> 0]]
                 ELSE LET cur == st.currentDrawdown
                          upd == IF JsLt(value, cur.troughValue)
                                 THEN [cur EXCEPT !.troughValue = value,
                                                  !.depth = JsSub(st.peak, value),
                                                  !.depthPct = drawdownPct]
                                 ELSE cur
                      IN  [st EXCEPT !.currentDrawdown =
                                         [upd EXCEPT !.duration = i - st.drawdownStart]]

RECURSIVE DrawdownPeriodsLoop(_, _, _, _)
DrawdownPeriodsLoop(equityCurve, i, st, threshold) ==
    IF i >= Len(equityCurve) THEN st
    ELSE DrawdownPeriodsLoop(equityCurve, i + 1,
             DrawdownPeriodsStep(st, equityCurve[i + 1], i, threshold), threshold)

\* the periods without the one still open at the last sample
DrawdownPeriodsClosedOnly(equityCurve, threshold) ==
    IF Len(equityCurve) = 0 THEN <<>>
    ELSE DrawdownPeriodsLoop(equityCurve, 0,
             [drawdowns |-> <<>>, peak |-> equityCurve[1], inDrawdown |-> FALSE,
              drawdownStart |-> 0, currentDrawdown |-> EmptyPeriod], threshold).drawdowns

calculateDrawdownPeriods(equityCurve, threshold) ==
    IF Len(equityCurve) = 0 THEN <<>>
    ELSE LET st == DrawdownPeriodsLoop(equityCurve, 0,
                       [drawdowns |-> <<>>, peak |-> equityCurve[1], inDrawdown |-> FALSE,
                        drawdownStart |-> 0, currentDrawdown |-> EmptyPeriod], threshold)
         IN  IF st.inDrawdown /\ JsGt(st.currentDrawdown.depthPct, threshold)
             THEN Append(st.drawdowns, st.currentDrawdown)
             ELSE st.drawdowns

(***************************************************************************)
(* Value at Risk, Conditional VaR and the tail ratio.  Each function gives *)
(* the value it returns and the caller's array as the call leaves it.      *)
(***************************************************************************)
\* longest return series enumerated
MaxReturns == 3
\* returns range over -MaxReturn..MaxReturn
MaxReturn == 2
\* Monte Carlo draws per call in the model (the code's default is 10000)
Simulations == 2

ReturnSeries == SeqsUpTo({Num(k) : k \in -MaxReturn..MaxReturn}, MaxReturns)

Confidences == {Rat(1, 4), Rat(1, 2), Rat(3, 4), Rat(9, 10), Rat(95, 100), Rat(99, 100)}

historicalVaR(returns, confidence) ==
    LET s     == SpreadSort(returns)
        index == JsFloor(JsMul(JsSub(Num(1), confidence), Num(Len(s.sorted))))
    IN  [value |-> JsAbs(OrZero(At(s.sorted, index))), returns |-> s.caller]

\* returns.reduce((sum, r) => sum + r, 0) / returns.length
MeanOf(returns) == JsDiv(SumOf(returns), Num(Len(returns)))

\* returns.reduce((sum, r) => sum + Math.pow(r - mean, 2), 0) / returns.length
VarianceOf(returns) ==
    LET mean == MeanOf(returns)
        sq   == [i \in 1..Len(returns) |->
                    JsMul(JsSub(returns[i], mean), JsSub(returns[i], mean))]
    IN  JsDiv(SumOf(sq), Num(Len(returns)))

\* zScores[confidence] || 1.645
getZScore(confidence) ==
    CASE confidence = Rat(90, 100) -> Rat(1282, 1000)
      [] confidence = Rat(95, 100) -> Rat(1645, 1000)
      [] confidence = Rat(99, 100) -> Rat(2326, 1000)
      [] OTHER -> Rat(1645, 1000)

parametricVaR(returns, confidence) ==
    LET mean   == MeanOf(returns)
        stdDev == JsSqrt(VarianceOf(returns))
        zScore == getZScore(confidence)
    IN  [value |-> JsAbs(JsSub(mean, JsMul(zScore, stdDev))), returns |-> returns]

\* Math.random() as the Box-Muller transform reads it: a draw u stands for the radius
\* sqrt(-2 ln u) it gives, a draw v for the cosine cos(2 pi v) it gives; a draw of 0 is
\* drawn again by the loops of generateNormalRandom
RadiusDraws == {Num(1), Num(2)}

CosineDraws == {Rat(-1, 1), Rat(-1, 2), Rat(1, 2)}

generateNormalRandom(mean, stdDev, u, v) == JsAdd(JsMul(JsMul(u, v), stdDev), mean)

\* draws[i] = <<u, v>>, what Math.random returned to the i-th call of generateNormalRandom
monteCarloVaR(returns, confidence, draws) ==
    LET mean   == MeanOf(returns)
        stdDev == JsSqrt(VarianceOf(returns))
        simulatedReturns ==
            [i \in 1..Len(draws) |-> generateNormalRandom(mean, stdDev, draws[i][1], draws[i][2])]
    IN  [value |-> historicalVaR(simulatedReturns, confidence).value, returns |-> returns]

calculateVaR(returns, confidence, method, draws) ==
    IF Len(returns) = 0 THEN [value |-> Num(0), returns |-> returns]
    ELSE CASE method = "historical" -> historicalVaR(returns, confidence)
           [] method = "parametric" -> parametricVaR(returns, confidence)
           [] method = "montecarlo" -> monteCarloVaR(returns, confidence, draws)
           [] OTHER -> historicalVaR(returns, confidence)

\* the loop of calculateCVaR: the sum of sortedReturns[0..varIndex]
RECURSIVE SumUpTo(_, _)
SumUpTo(sortedReturns, i) ==
    IF i < 0 THEN Num(0) ELSE JsAdd(SumUpTo(sortedReturns, i - 1), At(sortedReturns, i))

calculateCVaR(returns, confidence) ==
    IF Len(returns) = 0 THEN [value |-> Num(0), returns |-> returns]
    ELSE LET s        == SpreadSort(returns)
             varIndex == JsFloor(JsMul(JsSub(Num(1), confidence), Num(Len(s.sorted))))
             sum      == SumUpTo(s.sorted, varIndex)
             count    == varIndex + 1
         IN  [value |-> IF count > 0 THEN JsAbs(JsDiv(sum, Num(count))) ELSE Num(0),
              returns |-> s.caller]

Percentiles == {Rat(5, 100), Rat(1, 4), Rat(1, 2)}

calculateTailRatio(returns, percentile) ==
    IF Len(returns) = 0 THEN [value |-> Num(0), returns |-> returns]
    ELSE LET s          == SpreadSort(returns)
             n          == Num(Len(s.sorted))
             leftIndex  == JsFloor(JsMul(n, percentile))
             rightIndex == JsFloor(JsMul(n, JsSub(Num(1), percentile)))
             leftTail   == JsAbs(OrZero(At(s.sorted, leftIndex)))
             rightTail  == JsAbs(OrZero(At(s.sorted, rightIndex)))
         IN  [value |-> IF leftTail = Num(0)
                        THEN (IF JsGt(rightTail, Num(0)) THEN Num(999) ELSE Num(0))
                        ELSE JsDiv(rightTail, leftTail),
              returns |-> s.caller]

(***************************************************************************)
(* Trade metrics: profit factor and the per-market statistics; the Omega   *)
(* ratio and the Kelly criterion.                                          *)
(***************************************************************************)
\* longest trade list enumerated
MaxTrades == 3

Markets == {"BTC-USD", "ETH-USD"}

Trade(market, realizedPnl) ==
    [market |-> market, realizedPnl |-> realizedPnl, size |-> Num(1), price |-> Num(2)]

\* realizedPnl is undefined on a fill that carries none
PnlTrades ==
    SeqsUpTo({Trade("BTC-USD", x) :
                 x \in {Undefined, Num(-2), Num(-1), Num(0), Num(1), Num(999)}}, MaxTrades)

MarketTrades ==
    SeqsUpTo({Trade(m, x) : m \in Markets, x \in {Undefined, Num(-1), Num(1)}}, MaxTrades)

\* the forEach of calculateProfitFactor over trades[0..k-1]
RECURSIVE GrossSums(_, _)
GrossSums(trades, k) ==
    IF k = 0 THEN [grossProfit |-> Num(0), grossLoss |-> Num(0)]
    ELSE LET acc == GrossSums(trades, k - 1)
             pnl == OrZero(trades[k].realizedPnl)
         IN  IF JsGt(pnl, Num(0))
             THEN [acc EXCEPT !.grossProfit = JsAdd(@, pnl)]
             ELSE [acc EXCEPT !.grossLoss = JsAdd(@, JsAbs(pnl))]

\* the profit factor with no guard on a zero gross loss
ProfitFactorUnguarded(trades) ==
    IF Len(trades) = 0 THEN Num(0)
    ELSE LET g == GrossSums(trades, Len(trades))
         IN  JsDiv(g.grossProfit, g.grossLoss)

calculateProfitFactor(trades) ==
    IF Len(trades) = 0 THEN Num(0)
    ELSE LET g == GrossSums(trades, Len(trades))
         IN  IF g.grossLoss = Num(0)
             THEN (IF JsGt(g.grossProfit, Num(0)) THEN Num(999) ELSE Num(0))
             ELSE JsDiv(g.grossProfit, g.grossLoss)

\* the forEach of calculateOmegaRatio over returns[0..k-1]
RECURSIVE OmegaSums(_, _, _)
OmegaSums(returns, threshold, k) ==
    IF k = 0 THEN [sumGains |-> Num(0), sumLosses |-> Num(0)]
    ELSE LET acc == OmegaSums(returns, threshold, k - 1)
         IN  IF JsGt(returns[k], threshold)
             THEN [acc EXCEPT !.sumGains = JsAdd(@, JsSub(returns[k], threshold))]
             ELSE [acc EXCEPT !.sumLosses = JsAdd(@, JsSub(threshold, returns[k]))]

calculateOmegaRatio(returns, threshold) ==
    IF Len(returns) = 0 THEN Num(0)
    ELSE LET g == OmegaSums(returns, threshold, Len(returns))
         IN  IF g.sumLosses = Num(0)
             THEN (IF JsGt(g.sumGains, Num(0)) THEN Num(999) ELSE Num(0))
             ELSE JsDiv(g.sumGains, g.sumLosses)

OmegaReturns == SeqsUpTo({Num(-1), Num(0), Num(1), Num(2), Num(999), Num(1000)}, MaxTrades)

OmegaThresholds == {Num(0), Num(1)}

\* the clamp without its cap: Math.max(x, 0)
ClampBelowOnly(x) == IF JsGt(Num(0), x) THEN Num(0) ELSE x

\* Math.min(Math.max(x, 0), 25)
Clamp(x) ==
    LET lo == IF JsGt(Num(0), x) THEN Num(0) ELSE x
    IN  IF JsLt(Num(25), lo) THEN Num(25) ELSE lo

calculateKellyCriterion(winRate, avgWinRatio, avgLossRatio) ==
    IF avgLossRatio = Num(0) THEN Num(0)
    ELSE LET pp == JsDiv(winRate, Num(100))
             q  == JsSub(Num(1), pp)
             b  == JsDiv(avgWinRatio, avgLossRatio)
         IN  IF b = Num(0) THEN Num(0)
             ELSE LET kelly == JsDiv(JsSub(JsMul(pp, b), q), b)
                  IN  Clamp(JsMul(kelly, Num(100)))

WinRates == {-50, 0, 40, 50, 60, 100, 150}

KellyRatios == {Rat(k, 2) : k \in -4..6}

\* the forEach of calculateStatsByMarket over trades[0..k-1]
RECURSIVE StatsFold(_, _)
StatsFold(trades, k) ==
    IF k = 0 THEN <<>>
    ELSE LET stats  == StatsFold(trades, k - 1)
             trade  == trades[k]
             market == trade.market
             old    == IF market \in DOMAIN stats
                       THEN stats[market]
                       ELSE [trades |-> <<>>, totalPnL |-> Num(0), wins |-> 0,
                             losses |-> 0, volume |-> Num(0)]
             new    == [trades   |-> Append(old.trades, trade),
                        totalPnL |-> JsAdd(old.totalPnL, OrZero(trade.realizedPnl)),
                        wins     |-> IF JsGt(trade.realizedPnl, Num(0))
                                     THEN old.wins + 1 ELSE old.wins,
                        losses   |-> IF ~JsGt(trade.realizedPnl, Num(0))
                                        /\ JsLt(trade.realizedPnl, Num(0))
                                     THEN old.losses + 1 ELSE old.losses,
                        volume   |-> JsAdd(old.volume, OrZero(JsMul(trade.size, trade.price)))]
         IN  [m \in (DOMAIN stats) \cup {market} |-> IF m = market THEN new ELSE stats[m]]

calculateStatsByMarket(tradesArg) ==
    LET trades == tradesArg.items
        stats  == StatsFold(trades, Len(trades))
        derived(ms) ==
            [trades |-> ms.trades, totalPnL |-> ms.totalPnL, wins |-> ms.wins,
             losses |-> ms.losses, volume |-> ms.volume,
             winRate |-> IF Len(ms.trades) > 0
                         THEN JsMul(JsDiv(Num(ms.wins), Num(Len(ms.trades))), Num(100))
                         ELSE Num(0),
             avgPnL |-> IF Len(ms.trades) > 0
                        THEN JsDiv(ms.totalPnL, Num(Len(ms.trades)))
                        ELSE Num(0),
             profitFactor |-> calculateProfitFactor(ms.trades)]
    IN  \* trades.forEach of an undefined trades
        IF ~tradesArg.defined THEN [value |-> Thrown, trades |-> trades]
        ELSE [value |-> [m \in DOMAIN stats |-> derived(stats[m])], trades |-> trades]

(***************************************************************************)
(* Returns derived from an equity series, and the Sharpe and Sortino       *)
(* ratios of RiskMetrics.                                                  *)
(***************************************************************************)
\* longest equity history enumerated
MaxPoints == 3

\* typeof n === 'number' && !isNaN(n) && isFinite(n)
isNumber(x) == x.t = "num"

\* the loop of computeReturnsFromEquitySeries over the 0-based indices 1..k
RECURSIVE ReturnsLoop(_, _)
ReturnsLoop(equitySeries, k) ==
    IF k < 1 THEN <<>>
    ELSE LET returns == ReturnsLoop(equitySeries, k - 1)
             prv     == ParseFloat(OrZero(At(equitySeries, k - 1)))
             curr    == ParseFloat(OrZero(At(equitySeries, k)))
         IN  IF JsGt(prv, Num(0)) /\ isNumber(curr) /\ isNumber(prv)
             THEN Append(returns, JsSub(JsDiv(curr, prv), Num(1)))
             ELSE returns

\* the derivation that keeps a skipped pair as a 0 placeholder
ReturnsWithPlaceholders(equitySeries) ==
    [i \in 1..(Len(equitySeries) - 1) |->
        LET prv  == ParseFloat(OrZero(equitySeries[i]))
            curr == ParseFloat(OrZero(equitySeries[i + 1]))
        IN  IF JsGt(prv, Num(0)) THEN JsSub(JsDiv(curr, prv), Num(1)) ELSE Num(0)]

computeReturnsFromEquitySeries(equitySeries) == ReturnsLoop(equitySeries, Len(equitySeries) - 1)

\* the loop of DataService.calculateReturns over the 0-based indices 1..k
RECURSIVE PercentReturnsLoop(_, _)
PercentReturnsLoop(pnlData, k) ==
    IF k < 1 THEN <<>>
    ELSE LET returns    == PercentReturnsLoop(pnlData, k - 1)
             prevEquity == ParseFloat(OrZero(pnlData[k].equity))
             currEquity == ParseFloat(OrZero(pnlData[k + 1].equity))
         IN  IF JsGt(prevEquity, Num(0))
             THEN Append(returns,
                      JsMul(JsDiv(JsSub(currEquity, prevEquity), prevEquity), Num(100)))
             ELSE returns

calculateReturns(pnlData) == PercentReturnsLoop(pnlData, Len(pnlData) - 1)

\* mean of risk-metrics.js
mean(values) == IF Len(values) = 0 THEN Num(0) ELSE JsDiv(SumOf(values), Num(Len(values)))

\* stdDev of risk-metrics.js: the divisor is values.length - 1
stdDev(values) ==
    IF Len(values) <= 1 THEN Num(0)
    ELSE LET m  == mean(values)
             sq == [i \in 1..Len(values) |->
                       JsMul(JsSub(values[i], m), JsSub(values[i], m))]
         IN  JsSqrt(JsDiv(SumOf(sq), Num(Len(values) - 1)))

computeSharpe(returns, mar) ==
    IF Len(returns) = 0 THEN Num(0)
    ELSE LET excess == [i \in 1..Len(returns) |-> JsSub(returns[i], mar)]
             mu     == mean(excess)
             sd     == stdDev(excess)
         IN  IF JsGt(sd, Num(0)) THEN JsDiv(mu, sd) ELSE Num(0)

computeSortino(returns, mar, denominator) ==
    IF Len(returns) = 0 THEN Num(0)
    ELSE LET excess == [i \in 1..Len(returns) |-> JsSub(returns[i], mar)]
             mu     == mean(excess)
             downs  == [i \in 1..Len(excess) |->
                           IF JsLt(excess[i], Num(0)) THEN excess[i] ELSE Num(0)]
             sqs(a) == [i \in 1..Len(a) |-> JsMul(a[i], a[i])]
             neg    == SelectSeq(downs, LAMBDA d : JsLt(d, Num(0)))
         IN  IF denominator = "all"
             THEN LET dd == JsSqrt(JsDiv(SumOf(sqs(downs)), Num(Len(returns))))
                  IN  IF JsGt(dd, Num(0)) THEN JsDiv(mu, dd) ELSE Infinity
             ELSE IF Len(neg) = 0 THEN Infinity
                  ELSE LET dd == JsSqrt(JsDiv(SumOf(sqs(neg)), Num(Len(neg))))
                       IN  IF JsGt(dd, Num(0)) THEN JsDiv(mu, dd) ELSE Infinity

\* Array.prototype.sort((a, b) => (a.createdAt || '').localeCompare(b.createdAt || '')):
\* stable, ascending in createdAt (a timestamp is its rank, 0 a missing one)
RECURSIVE InsertByCreatedAt(_, _)
InsertByCreatedAt(sorted, x) ==
    IF Len(sorted) = 0 THEN <<x>>
    ELSE IF x.createdAt < sorted[Len(sorted)].createdAt
         THEN Append(InsertByCreatedAt(SubSeq(sorted, 1, Len(sorted) - 1), x),
                     sorted[Len(sorted)])
         ELSE Append(sorted, x)

RECURSIVE SortByCreatedAt(_)
SortByCreatedAt(arr) ==
    IF Len(arr) = 0 THEN <<>>
    ELSE InsertByCreatedAt(SortByCreatedAt(SubSeq(arr, 1, Len(arr) - 1)), arr[Len(arr)])

\* historicalPnl.slice().sort(cmp): the sort acts on the slice
SliceSort(arr) == [caller |-> arr, sorted |-> SortByCreatedAt(arr)]

computeFromHistoricalPnl(historicalPnl, mar, denominator) ==
    LET s       == SliceSort(historicalPnl)
        parsed  == [i \in 1..Len(s.sorted) |-> ParseFloat(OrZero(s.sorted[i].equity))]
        equity  == SelectSeq(parsed, isNumber)
        returns == computeReturnsFromEquitySeries(equity)
    IN  [value |-> [returns |-> returns,
                    sharpe  |-> computeSharpe(returns, mar),
                    sortino |-> computeSortino(returns, mar, denominator)],
         historicalPnl |-> s.caller]

\* what an entry of an equity series may be
RawEquity == {Num(-1), Num(0), Num(1), Num(2), Str(2), Undefined}

RawSeries == SeqsUpTo(RawEquity, MaxPoints) \cup {<<Num(100), Num(110), Num(99)>>}

PnlPoint(createdAt, equity) == [createdAt |-> createdAt, equity |-> equity]

PnlHistories ==
    SeqsUpTo({PnlPoint(c, e) : c \in 0..2, e \in {Str(1), Str(2), Num(0)}}, MaxPoints)

(***************************************************************************)
(* The ratios of advanced-metrics.js.                                      *)
(***************************************************************************)
\* mean of advanced-metrics.js
meanAdvanced(values) ==
    IF Len(values) = 0 THEN Num(0) ELSE JsDiv(SumOf(values), Num(Len(values)))

\* the divisor is values.length
standardDeviation(values) ==
    IF Len(values) = 0 THEN Num(0)
    ELSE LET avg          == meanAdvanced(values)
             squaredDiffs == [i \in 1..Len(values) |->
                                 JsMul(JsSub(values[i], avg), JsSub(values[i], avg))]
         IN  JsSqrt(meanAdvanced(squaredDiffs))

downsideDeviation(returns, targetReturn) ==
    IF Len(returns) = 0 THEN Num(0)
    ELSE LET downsideReturns ==
                 [i \in 1..Len(returns) |->
                     LET m == JsMin(Num(0), JsSub(returns[i], targetReturn))
                     IN  JsMul(m, m)]
         IN  JsSqrt(meanAdvanced(downsideReturns))

calculateSharpeRatio(returns, riskFreeRate, annualizationFactor) ==
    IF Len(returns) = 0 THEN Num(0)
    ELSE LET avgReturn == meanAdvanced(returns)
             sd        == standardDeviation(returns)
         IN  IF sd = Num(0) THEN Num(0)
             ELSE JsMul(JsDiv(JsSub(avgReturn, riskFreeRate), sd), JsSqrt(annualizationFactor))

calculateSortinoRatio(returns, targetReturn, annualizationFactor) ==
    IF Len(returns) = 0 THEN Num(0)
    ELSE LET avgReturn == meanAdvanced(returns)
             downDev   == downsideDeviation(returns, targetReturn)
         IN  IF downDev = Num(0)
             THEN (IF JsGt(avgReturn, targetReturn) THEN Num(999) ELSE Num(0))
             ELSE JsMul(JsDiv(JsSub(avgReturn, targetReturn), downDev),
                        JsSqrt(annualizationFactor))

\* the guard of line 81 already returns 0 on a zero drawdown
calculateCalmarRatio(returns, maxDrawdown, periodsPerYear) ==
    IF Len(returns) = 0 \/ maxDrawdown = Num(0) THEN Num(0)
    ELSE LET avgReturn    == meanAdvanced(returns)
             annualReturn == JsMul(avgReturn, periodsPerYear)
         IN  IF maxDrawdown = Num(0)
             THEN (IF JsGt(annualReturn, Num(0)) THEN Num(999) ELSE Num(0))
             ELSE JsAbs(JsDiv(annualReturn, maxDrawdown))

calculateSterlingRatio(returns, avgDrawdown, riskFreeRate, periodsPerYear) ==
    IF Len(returns) = 0 \/ avgDrawdown = Num(0) THEN Num(0)
    ELSE LET avgReturn    == meanAdvanced(returns)
             annualReturn == JsMul(avgReturn, periodsPerYear)
             excessReturn == JsSub(annualReturn, riskFreeRate)
         IN  IF avgDrawdown = Num(0)
             THEN (IF JsGt(excessReturn, Num(0)) THEN Num(999) ELSE Num(0))
             ELSE JsAbs(JsDiv(excessReturn, avgDrawdown))

\* the defaults of annualizationFactor and periodsPerYear
TradingDays == Num(252)

(***************************************************************************)
(* Periods per year and the annualized ratios of RiskMetrics.              *)
(***************************************************************************)
\* longest timestamp list enumerated
MaxStamps == 3

\* a timestamp is the hour it names, or Invalid for a string that is no date
Invalid == -1

\* (new Date(t)).getTime(): milliseconds, NaN for an invalid date
DateGetTime(t) == IF t = Invalid THEN NaN ELSE Num(t * 3600000)

\* median of risk-metrics.js
median(values) ==
    IF Len(values) = 0 THEN Num(0)
    ELSE LET arr == SortAsc(values)
             mid == Len(arr) \div 2
         IN  IF Len(arr) % 2 = 1 THEN At(arr, mid)
             ELSE JsDiv(JsAdd(At(arr, mid - 1), At(arr, mid)), Num(2))

\* 365.25*24*3600
SecondsPerYear == Num(31557600)

detectPeriodsPerYearFromTimestamps(timestamps) ==
    IF ~timestamps.defined \/ Len(timestamps.items) < 2 THEN Num(0)
    ELSE LET times == [i \in 1..Len(timestamps.items) |-> DateGetTime(timestamps.items[i])]
             secs  == SortAsc(SelectSeq(times, LAMBDA n : n.t # "nan"))
         IN  IF Len(secs) < 2 THEN Num(0)
             ELSE LET diffs == [i \in 1..(Len(secs) - 1) |->
                                   JsDiv(JsSub(secs[i + 1], secs[i]), Num(1000))]
                      m     == OrElse(median(diffs), Num(3600))
                  IN  JsMax(Num(1), JsDiv(SecondsPerYear, m))

computeAnnualizedFromReturns(returns, timestamps, mar, denominator) ==
    LET perPeriodSharpe  == computeSharpe(returns, mar)
        perPeriodSortino == computeSortino(returns, mar, denominator)
        ppy              == detectPeriodsPerYearFromTimestamps(timestamps)
        factor           == IF JsGt(ppy, Num(0)) THEN JsSqrt(ppy) ELSE Num(1)
    IN  [sharpe |-> perPeriodSharpe,
         sortino |-> perPeriodSortino,
         sharpeAnnualized |-> JsMul(perPeriodSharpe, factor),
         sortinoAnnualized |-> JsMul(perPeriodSortino, factor),
         ppy |-> ppy]

\* timestamps an hour and two hours apart, and one that is no date
StampLists == SeqsUpTo({0, 1, 3, Invalid}, MaxStamps)

\* the return series the annualized ratios are computed on
RatioReturns == SeqsUpTo({Num(-1), Num(1), Num(2)}, 2)

Mars == {Num(0), Rat(1, 2)}

(***************************************************************************)
(* The basic metrics of a trade list, and the bundle DataService builds    *)
(* from the indexer's responses.                                           *)
(***************************************************************************)
calculatePnL(trades) ==
    IF Len(trades) = 0 THEN Num(0)
    ELSE SumOf([i \in 1..Len(trades) |-> OrZero(trades[i].realizedPnl)])

\* the trades kept by `t.realizedPnl !== undefined`: a null passes the test
ClosedTrades(trades) == SelectSeq(trades, LAMBDA t : t.realizedPnl.t # "undef")

calculateWinRate(trades) ==
    IF Len(trades) = 0 THEN Num(0)
    ELSE LET closedTrades == ClosedTrades(trades)
         IN  IF Len(closedTrades) = 0 THEN Num(0)
             ELSE LET wins == Len(SelectSeq(closedTrades,
                                            LAMBDA t : JsGt(t.realizedPnl, Num(0))))
                  IN  JsMul(JsDiv(Num(wins), Num(Len(closedTrades))), Num(100))

calculateAverageWin(trades) ==
    IF Len(trades) = 0 THEN Num(0)
    ELSE LET wins == SelectSeq(trades, LAMBDA t : JsGt(t.realizedPnl, Num(0)))
         IN  IF Len(wins) = 0 THEN Num(0)
             ELSE JsDiv(SumOf([i \in 1..Len(wins) |-> wins[i].realizedPnl]),
                        Num(Len(wins)))

calculateAverageLoss(trades) ==
    IF Len(trades) = 0 THEN Num(0)
    ELSE LET losses == SelectSeq(trades, LAMBDA t : JsLt(t.realizedPnl, Num(0)))
         IN  IF Len(losses) = 0 THEN Num(0)
             ELSE JsDiv(SumOf([i \in 1..Len(losses) |-> JsAbs(losses[i].realizedPnl)]),
                        Num(Len(losses)))

calculateExpectancy(trades) ==
    IF Len(trades) = 0 THEN Num(0)
    ELSE LET winRate == JsDiv(calculateWinRate(trades), Num(100))
             avgWin  == calculateAverageWin(trades)
             avgLoss == calculateAverageLoss(trades)
         IN  JsSub(JsMul(winRate, avgWin), JsMul(JsSub(Num(1), winRate), avgLoss))

\* the forEach of calculateMaxConsecutiveWins over trades[0..k-1]
RECURSIVE WinsFold(_, _)
WinsFold(trades, k) ==
    IF k = 0 THEN [maxWins |-> 0, currentWins |-> 0]
    ELSE LET acc == WinsFold(trades, k - 1)
         IN  IF JsGt(trades[k].realizedPnl, Num(0))
             THEN [maxWins     |-> IF acc.currentWins + 1 > acc.maxWins
                                   THEN acc.currentWins + 1 ELSE acc.maxWins,
                   currentWins |-> acc.currentWins + 1]
             ELSE [acc EXCEPT !.currentWins = 0]

\* the count that lets a trade which is no win pass without ending the run
CountWins(trades) == Len(SelectSeq(trades, LAMBDA t : JsGt(t.realizedPnl, Num(0))))

calculateMaxConsecutiveWins(trades) ==
    IF Len(trades) = 0 THEN 0 ELSE WinsFold(trades, Len(trades)).maxWins

\* the forEach of calculateMaxConsecutiveLosses over trades[0..k-1]
RECURSIVE LossesFold(_, _)
LossesFold(trades, k) ==
    IF k = 0 THEN [maxLosses |-> 0, currentLosses |-> 0]
    ELSE LET acc == LossesFold(trades, k - 1)
         IN  IF JsLt(trades[k].realizedPnl, Num(0))
             THEN [maxLosses     |-> IF acc.currentLosses + 1 > acc.maxLosses
                                     THEN acc.currentLosses + 1 ELSE acc.maxLosses,
                   currentLosses |-> acc.currentLosses + 1]
             ELSE [acc EXCEPT !.currentLosses = 0]

calculateMaxConsecutiveLosses(trades) ==
    IF Len(trades) = 0 THEN 0 ELSE LossesFold(trades, Len(trades)).maxLosses

\* longest trade list the streaks are computed on
MaxStreak == 4

StreakTrades ==
    SeqsUpTo({Trade("BTC-USD", x) : x \in {Undefined, Num(-1), Num(0), Num(1)}}, MaxStreak)

\* realizedPnl is null on a trade that is still open
WinRateTrades ==
    SeqsUpTo({Trade("BTC-USD", x) : x \in {Undefined, Null, Num(-1), Num(0), Num(1)}},
             MaxTrades)

\* longest fill list enumerated
MaxFills == 2

\* a fill that carries a realized P&L; its other numbers are decimal strings
PnlFill(market, price, size, realizedPnl) ==
    [market |-> market, price |-> price, size |-> size, realizedPnl |-> realizedPnl]

\* a fill of the indexer has no realizedPnl: reading it gives undefined
Fill(market, price, size) == PnlFill(market, price, size, Undefined)

FillLists ==
    SeqsUpTo({Fill("BTC-USD", Str(2), Str(1)),
              PnlFill("BTC-USD", Str(2), Str(1), Num(3)),
              PnlFill("BTC-USD", Str(2), Str(1), Num(-1))}, MaxFills)

\* the response of /historical-pnl: an object whose historicalPnl property is the array
PnlResponses ==
    {[historicalPnl |-> a] :
        a \in Optional(SeqsUpTo({PnlPoint(0, e) : e \in {Str(1), Str(2), Str(4)}},
                                MaxPoints))}

\* a processed fill has no realizedPnl property: reading it gives undefined
processFills(fillsData) ==
    LET fills == IF fillsData.fills.defined THEN fillsData.fills.items ELSE <<>>
    IN  [i \in 1..Len(fills) |->
            [market      |-> fills[i].market,
             realizedPnl |-> Undefined,
             size        |-> ParseFloat(OrZero(fills[i].size)),
             price       |-> ParseFloat(OrZero(fills[i].price))]]

\* the guard of DataService.calculateReturns, before its loop
ReturnsOfResponse(historicalPnl) ==
    IF ~historicalPnl.historicalPnl.defined THEN <<>>
    ELSE calculateReturns(historicalPnl.historicalPnl.items)

\* calculateMaxDrawdown on the response object: it has no length and no element 0, so
\* the guard passes and the loop runs no iteration
MaxDrawdownOfResponse(historicalPnl) ==
    LET st == MaxDrawdownLoop(<<>>, 0,
                  [maxDrawdown |-> Num(0), maxDrawdownPct |-> Num(0),
                   peak |-> Undefined, peakIndex |-> 0, troughIndex |-> 0,
                   maxDuration |-> 0, currentDuration |-> 0, drawdownStart |-> 0])
    IN  [value |-> st.maxDrawdown, percentage |-> st.maxDrawdownPct,
         duration |-> st.maxDuration, peakIndex |-> st.peakIndex,
         troughIndex |-> st.troughIndex]

processPortfolioData(rawData) ==
    LET processedTrades == processFills(rawData.fills)
        basicMetrics ==
            [totalPnL     |-> calculatePnL(processedTrades),
             winRate      |-> calculateWinRate(processedTrades),
             profitFactor |-> calculateProfitFactor(processedTrades),
             expectancy   |-> calculateExpectancy(processedTrades)]
        returns == ReturnsOfResponse(rawData.historicalPnl)
        \* basicMetrics has no maxDrawdown property
        maxDrawdown == Undefined
    IN  [trades |-> processedTrades,
         metrics |->
             [totalPnL       |-> basicMetrics.totalPnL,
              winRate        |-> basicMetrics.winRate,
              profitFactor   |-> basicMetrics.profitFactor,
              expectancy     |-> basicMetrics.expectancy,
              sharpeRatio    |-> calculateSharpeRatio(returns, Num(0), TradingDays),
              sortinoRatio   |-> calculateSortinoRatio(returns, Num(0), TradingDays),
              calmarRatio    |-> calculateCalmarRatio(returns, maxDrawdown, TradingDays),
              maxDrawdown    |-> MaxDrawdownOfResponse(rawData.historicalPnl),
              valueAtRisk    |-> calculateVaR(returns, Rat(95, 100), "historical", <<>>).value,
              conditionalVaR |-> calculateCVaR(returns, Rat(95, 100)).value],
         historicalPnl |-> rawData.historicalPnl]

(***************************************************************************)
(* Functions that read an argument without a guard: the information and    *)
(* the Burke ratio, the grouping of trades and the unrealized P&L.         *)
(***************************************************************************)
calculateInformationRatio(portfolioReturns, benchmarkReturns) ==
    IF ~portfolioReturns.defined \/ Len(portfolioReturns.items) = 0 THEN Num(0)
    \* benchmarkReturns[i] of an undefined benchmarkReturns
    ELSE IF ~benchmarkReturns.defined THEN Thrown
    ELSE LET excessReturns ==
                 [i \in 1..Len(portfolioReturns.items) |->
                     JsSub(portfolioReturns.items[i],
                           OrZero(At(benchmarkReturns.items, i - 1)))]
             avgExcessReturn == meanAdvanced(excessReturns)
             trackingError   == standardDeviation(excessReturns)
         IN  IF trackingError = Num(0) THEN Num(0)
             ELSE JsDiv(avgExcessReturn, trackingError)

calculateBurkeRatio(returns, drawdowns, riskFreeRate) ==
    IF ~returns.defined \/ Len(returns.items) = 0 THEN Num(0)
    \* drawdowns.reduce of an undefined drawdowns
    ELSE IF ~drawdowns.defined THEN Thrown
    ELSE LET avgReturn    == meanAdvanced(returns.items)
             excessReturn == JsSub(avgReturn, riskFreeRate)
             sumSquaredDrawdowns ==
                 SumOf([i \in 1..Len(drawdowns.items) |->
                           JsMul(drawdowns.items[i], drawdowns.items[i])])
             denominator  == JsSqrt(sumSquaredDrawdowns)
         IN  IF denominator = Num(0)
             THEN (IF JsGt(excessReturn, Num(0)) THEN Num(999) ELSE Num(0))
             ELSE JsDiv(excessReturn, denominator)

\* a date of the year 2024 in local time: the 0-based day of the year (January and
\* February) and the hour
DateOf(day, hour) == [day |-> day, hour |-> hour]

getFullYear(date) == 2024

getMonth(date) == IF date.day < 31 THEN 0 ELSE 1

getDate(date) == IF date.day < 31 THEN date.day + 1 ELSE date.day - 30

\* Math.ceil((pastDaysOfYear + firstDayOfYear.getDay() + 1) / 7); 1 January 2024 is a
\* Monday (getDay() = 1) and pastDaysOfYear = day + hour/24
getWeekNumber(date) == (24 * date.day + date.hour + 48 + 167) \div 168

Periods == {"hourly", "daily", "weekly", "monthly", "yearly"}

\* the key of a group; a part the key does not hold is -1
PeriodKey(date, period) ==
    CASE period = "hourly" ->
            [year |-> getFullYear(date), month |-> getMonth(date), date |-> getDate(date),
             hour |-> date.hour, week |-> -1]
      [] period = "weekly" ->
            [year |-> getFullYear(date), month |-> -1, date |-> -1,
             hour |-> -1, week |-> getWeekNumber(date)]
      [] period = "monthly" ->
            [year |-> getFullYear(date), month |-> getMonth(date), date |-> -1,
             hour |-> -1, week |-> -1]
      [] OTHER ->
            [year |-> getFullYear(date), month |-> getMonth(date), date |-> getDate(date),
             hour |-> -1, week |-> -1]

\* the forEach of groupTradesByPeriod over trades[0..k-1]
RECURSIVE GroupFold(_, _, _)
GroupFold(trades, period, k) ==
    IF k = 0 THEN <<>>
    ELSE LET grouped == GroupFold(trades, period, k - 1)
             key     == PeriodKey(trades[k].createdAt, period)
             old     == IF key \in DOMAIN grouped THEN grouped[key] ELSE <<>>
         IN  [g \in (DOMAIN grouped) \cup {key} |->
                 IF g = key THEN Append(old, trades[k]) ELSE grouped[g]]

groupTradesByPeriod(trades, period) ==
    \* trades.forEach of an undefined trades
    IF ~trades.defined THEN Thrown
    ELSE GroupFold(trades.items, period, Len(trades.items))

DatedTrades ==
    SeqsUpTo({[createdAt |-> DateOf(d, h), realizedPnl |-> Num(1)] :
                 d \in {0, 6, 31}, h \in {0, 1}}, 2)

Position(status, market, side, entryPrice, size) ==
    [status |-> status, market |-> market, side |-> side,
     entryPrice |-> entryPrice, size |-> size]

\* the reduce of calculateUnrealizedPnL over the open positions open[0..k-1]
RECURSIVE UnrealizedFold(_, _, _)
UnrealizedFold(open, currentPrices, k) ==
    IF k = 0 THEN Num(0)
    ELSE LET total        == UnrealizedFold(open, currentPrices, k - 1)
             pos          == open[k]
             currentPrice == OrElse(currentPrices[pos.market], pos.entryPrice)
             pnl          == IF pos.side = "LONG"
                             THEN JsMul(JsSub(currentPrice, pos.entryPrice), pos.size)
                             ELSE JsMul(JsSub(pos.entryPrice, currentPrice), pos.size)
         IN  JsAdd(total, pnl)

calculateUnrealizedPnL(positions, currentPrices) ==
    IF ~positions.defined \/ Len(positions.items) = 0 THEN Num(0)
    ELSE LET open == SelectSeq(positions.items, LAMBDA pos : pos.status = "OPEN")
         IN  \* currentPrices[pos.market] of an undefined currentPrices, once the
             \* callback runs
             IF Len(open) > 0 /\ ~currentPrices.defined THEN Thrown
             ELSE UnrealizedFold(open, currentPrices.items, Len(open))

\* longest position list enumerated
MaxPositions == 2

PositionLists ==
    SeqsUpTo({Position(s, "BTC-USD", side, Num(2), Num(1)) :
                 s \in {"OPEN", "CLOSED"}, side \in {"LONG", "SHORT"}}, MaxPositions)

\* the prices by market; a market with no price reads as undefined
PriceMaps == [Markets -> {Undefined, Num(3)}]

(***************************************************************************)
(* Beta: calculateBeta of advanced-metrics.js and calculatePortfolioBeta   *)
(* of risk-metrics.js.                                                     *)
(***************************************************************************)
\* longest series beta is computed on
MaxBeta == 3

BetaSeries == SeqsUpTo({Num(1), Num(2)}, MaxBeta)

MinLen(a, b) == IF Len(a) < Len(b) THEN Len(a) ELSE Len(b)

\* the sums of a beta loop over the first n elements, centered on the given means
BetaSums(x, y, n, meanX, meanY) ==
    [covariance |->
         SumOf([i \in 1..n |-> JsMul(JsSub(x[i], meanX), JsSub(y[i], meanY))]),
     marketVariance |->
         SumOf([i \in 1..n |-> JsMul(JsSub(y[i], meanY), JsSub(y[i], meanY))])]

\* the means are taken over the whole of each array
calculateBeta(returns, marketReturns) ==
    IF Len(returns) = 0 THEN Num(0)
    ELSE LET avgReturn       == meanAdvanced(returns)
             avgMarketReturn == meanAdvanced(marketReturns)
             s == BetaSums(returns, marketReturns, MinLen(returns, marketReturns),
                           avgReturn, avgMarketReturn)
         IN  IF s.marketVariance = Num(0) THEN Num(0)
             ELSE JsDiv(s.covariance, s.marketVariance)

\* the means are taken over the first n elements
calculatePortfolioBeta(portfolioReturns, marketReturns) ==
    IF Len(portfolioReturns) = 0 THEN Num(0)
    ELSE LET n             == MinLen(portfolioReturns, marketReturns)
             portfolioMean == JsDiv(SumOf(SubSeq(portfolioReturns, 1, n)), Num(n))
             marketMean    == JsDiv(SumOf(SubSeq(marketReturns, 1, n)), Num(n))
             s == BetaSums(portfolioReturns, marketReturns, n, portfolioMean, marketMean)
         IN  IF s.marketVariance = Num(0) THEN Num(0)
             ELSE JsDiv(s.covariance, s.marketVariance)

(***************************************************************************)
(* Liquidation price and distance of a leveraged position.                 *)
(***************************************************************************)
\* !x : 0, NaN, null and undefined are falsy
Not(x) == OrZero(x) = Num(0)

\* a position as calculateLiquidationPrice destructures it; a missing property
\* reads undefined
LeveragedPosition(side, entryPrice, size, leverage, maintenanceMargin) ==
    [side |-> side, entryPrice |-> entryPrice, size |-> size, leverage |-> leverage,
     maintenanceMargin |-> maintenanceMargin]

\* the default of the destructuring: 0.006
DefaultMaintenanceMargin == Rat(6, 1000)

calculateLiquidationPrice(position) ==
    LET maintenanceMargin ==
            IF position.maintenanceMargin = Undefined THEN DefaultMaintenanceMargin
            ELSE position.maintenanceMargin
    IN  IF Not(position.entryPrice) \/ Not(position.size) \/ Not(position.leverage)
        THEN Num(0)
        ELSE LET initialMargin       == JsDiv(Num(1), position.leverage)
                 liquidationDistance == JsSub(initialMargin, maintenanceMargin)
             IN  IF position.side = "LONG"
                 THEN JsMul(position.entryPrice, JsSub(Num(1), liquidationDistance))
                 ELSE JsMul(position.entryPrice, JsAdd(Num(1), liquidationDistance))

calculateLiquidationDistance(position, currentPrice) ==
    LET liquidationPrice == calculateLiquidationPrice(position)
    IN  IF Not(liquidationPrice) \/ Not(currentPrice) THEN Num(0)
        ELSE IF position.side = "LONG"
             THEN JsMul(JsDiv(JsSub(currentPrice, liquidationPrice), currentPrice),
                        Num(100))
             ELSE JsMul(JsDiv(JsSub(liquidationPrice, currentPrice), currentPrice),
                        Num(100))

LeveragedPositions ==
    {LeveragedPosition(side, entryPrice, size, leverage, maintenanceMargin) :
        side \in {"LONG", "SHORT"},
        entryPrice \in {Undefined, Num(0), Num(100)},
        size \in {Undefined, Num(0), Num(1), Num(-1)},
        leverage \in {Undefined, Num(0), Num(1), Num(10), Num(200)},
        maintenanceMargin \in {Undefined, Num(0), Rat(1, 20)}}

\* current prices: none, 0, two prices and the liquidation price itself
CurrentPrices(position) ==
    {Undefined, Num(0), Num(50), Num(100), calculateLiquidationPrice(position)}

(***************************************************************************)
(* DataService and DashboardApp.  The clock advances in steps of the       *)
(* refresh interval.  A client call that has been issued and has not yet   *)
(* been answered is an element of `pending`; the code that runs after an   *)
(* await whose promise is already settled runs in the same task, so a      *)
(* handler and its continuation up to the next client call are one step.   *)
(***************************************************************************)
\* the clock stops after this many steps
MaxTicks == 4
\* client calls in flight at once
MaxPending == 2
\* interval timers created
MaxTimers == 2
\* callbacks subscribed to an event from outside the application
MaxSubscribers == 2

\* the period of the refresh timer, in ms: the step of the clock
RefreshInterval == 10000

\* the age below which loadPortfolioData returns the cached entry, in ms
PortfolioCacheMs == 30000

\* the ttl loadPortfolioData passes to setCachedData, in ms
PortfolioTtl == 30000

Addresses == {"dydx1a", "dydx1b"}

SubaccountNumbers == {0}

\* currentAddress = null
NullAddress == "null"

\* the bundle of processPortfolioData: its address and its timestamp
PortfolioData(address, timestamp) == [address |-> address, timestamp |-> timestamp]

\* currentData = null
NoData == PortfolioData(NullAddress, 0)

\* new Map()
EmptyMap == [k \in {} |-> NoData]

\* map.set(key, value)
MapSet(map, key, value) ==
    [k \in DOMAIN map \cup {key} |-> IF k = key THEN value ELSE map[k]]

\* `portfolio_${address}_${subaccountNumber}`
CacheKey(address, subaccountNumber) == <<"portfolio", address, subaccountNumber>>

\* cached && Date.now() - cached.timestamp < 30000
CacheHit(map, key, t) ==
    key \in DOMAIN map /\ t - map[key].timestamp < PortfolioCacheMs

\* cleanCache at the time t
cleanCache(map, t) ==
    [k \in {k \in DOMAIN map : ~(t - map[k].timestamp > map[k].ttl)} |-> map[k]]

\* setCachedData at the time t
setCachedData(map, key, data, ttl, t) ==
    cleanCache(MapSet(map, key, [data |-> data, timestamp |-> t, ttl |-> ttl]), t)

\* a callback: a function object, and what a call of it does
Callback(id, does, target) == [id |-> id, does |-> does, target |-> target]

\* callbacks subscribed from outside: one that returns, one that throws, one that
\* unsubscribes itself and one that unsubscribes the first
SubscriberCallbacks ==
    {Callback(1, "returns", 0), Callback(2, "throws", 0),
     Callback(3, "unsubscribes", 3), Callback(4, "unsubscribes", 1)}

CallbackOf(id) == CHOOSE c \in SubscriberCallbacks : c.id = id

\* the closure startAutoUpdate subscribes: it displays the data it is given
DisplayCallback(k) == Callback(k, "displays", 0)

Events == {"portfolio", "update"}

subscribe(subs, event, callback) ==
    LET s == IF event \in DOMAIN subs THEN subs ELSE MapSet(subs, event, <<>>)
    IN  [s EXCEPT ![event] = Append(@, callback)]

\* callbacks.indexOf(callback): 0-based, -1 when absent
IndexOf(callbacks, callback) ==
    IF \E i \in 1..Len(callbacks) : callbacks[i] = callback
    THEN (CHOOSE i \in 1..Len(callbacks) :
              /\ callbacks[i] = callback
              /\ \A j \in 1..(i - 1) : callbacks[j] # callback) - 1
    ELSE -1

\* callbacks.splice(index, 1)
Splice(callbacks, index) ==
    [i \in 1..(Len(callbacks) - 1) |->
        IF i <= index THEN callbacks[i] ELSE callbacks[i + 1]]

unsubscribe(subs, event, callback) ==
    IF event \in DOMAIN subs
    THEN LET index == IndexOf(subs[event], callback)
         IN  IF index > -1 THEN [subs EXCEPT ![event] = Splice(@, index)] ELSE subs
    ELSE subs

\* one call of a callback inside the try of notifySubscribers
InvokeCallback(st, event, callback, data) ==
    LET called == [st EXCEPT !.invoked = Append(@, callback.id)]
    IN  CASE callback.does = "unsubscribes" ->
                 [called EXCEPT !.subscribers =
                     unsubscribe(@, event, CallbackOf(callback.target))]
          [] callback.does = "displays" -> [called EXCEPT !.currentData = data]
          \* a throw is caught and logged
          [] OTHER -> called

\* forEach over the array of the event: the indices 0..len-1 of the array as it was
\* at the start, each visited only if the array still has it
RECURSIVE ForEachCallback(_, _, _, _, _)
ForEachCallback(st, event, data, i, len) ==
    IF i >= len THEN st
    ELSE IF i >= Len(st.subscribers[event])
         THEN ForEachCallback(st, event, data, i + 1, len)
         ELSE ForEachCallback(InvokeCallback(st, event, st.subscribers[event][i + 1], data),
                              event, data, i + 1, len)

\* notifySubscribers: the subscribers, the callbacks invoked and the data the
\* application displays when it returns
notifySubscribers(subs, displayed, event, data) ==
    LET st == [subscribers |-> subs, invoked |-> <<>>, currentData |-> displayed]
    IN  IF event \in DOMAIN subs
        THEN ForEachCallback(st, event, data, 0, Len(subs[event]))
        ELSE st

\* a client call in flight, and the function awaiting it
ClientCall(caller, address, subaccountNumber) ==
    [caller |-> caller, address |-> address, subaccountNumber |-> subaccountNumber]

\* the sequence without its element at the 1-based position i
RemoveAt(s, i) == [j \in 1..(Len(s) - 1) |-> IF j < i THEN s[j] ELSE s[j + 1]]

\* clearInterval(id); clearing no timer when the handle is null
clearInterval(ts, id) == IF id = 0 THEN ts ELSE [ts EXCEPT ![id] = FALSE]

\* DashboardApp.startAutoUpdate: the timers, the handle and the subscribers after it
startAutoUpdate(ts, handle, subs) ==
    LET stopped == clearInterval(ts, handle)
        started == Append(stopped, TRUE)
    IN  [timers |-> started,
         updateInterval |-> Len(started),
         subscribers |-> subscribe(subs, "update", DisplayCallback(Len(started)))]

(***************************************************************************)
(* The calls.  A call is made by an idle caller; Return hands the control  *)
(* back to it.                                                             *)
(***************************************************************************)
NoCall == [valid |-> FALSE, args |-> <<>>, ret |-> Num(0)]

Idle == op = "none"

Init ==
    /\ op = "none"
    /\ args = <<>>
    /\ ret = Num(0)
    /\ after = <<>>
    /\ prev = NoCall
    /\ currentAddress = NullAddress
    /\ currentData = NoData
    /\ updateInterval = 0
    /\ timers = <<>>
    /\ cache = EmptyMap
    /\ subscribers = EmptyMap
    /\ pending = <<>>
    /\ now = 0

CallMaxDrawdown ==
    /\ Idle
    /\ UNCHANGED dashVars
    /\ \E v \in EquitySeries, form \in {"numbers", "records"} :
        LET equityCurve == IF form = "numbers" THEN AsNumbers(v) ELSE AsRecords(v)
        IN  /\ op' = "calculateMaxDrawdown"
            /\ args' = [equityCurve |-> equityCurve, series |-> v, form |-> form]
            /\ ret' = calculateMaxDrawdown(equityCurve)
            /\ after' = equityCurve
            /\ prev' = NoCall

CallDrawdownPeriods ==
    /\ Idle
    /\ UNCHANGED dashVars
    /\ \E v \in EquitySeries, form \in {"numbers", "records"}, th \in Thresholds :
        LET equityCurve == IF form = "numbers" THEN AsNumbers(v) ELSE AsRecords(v)
        IN  /\ op' = "calculateDrawdownPeriods"
            /\ args' = [equityCurve |-> equityCurve, series |-> v, form |-> form,
                        threshold |-> th]
            /\ ret' = calculateDrawdownPeriods(equityCurve, Num(th))
            /\ after' = equityCurve
            /\ prev' = NoCall

\* the return series for which Math.sqrt(variance) is rational, so that the
\* parametric and the Monte Carlo estimate stay exact
ExactStdDev(returns) == Len(returns) = 0 \/ JsSqrt(VarianceOf(returns)).r = 1

CallVaR ==
    /\ Idle
    /\ UNCHANGED dashVars
    /\ \E returns \in ReturnSeries, c \in Confidences,
          method \in {"historical", "parametric", "unknown"} :
        /\ method = "parametric" => ExactStdDev(returns)
        /\ LET r == calculateVaR(returns, c, method, <<>>)
           IN  /\ op' = "calculateVaR"
               /\ args' = [returns |-> returns, confidence |-> c, method |-> method]
               /\ ret' = r.value
               /\ after' = r.returns
               /\ prev' = NoCall

\* the Monte Carlo estimate: the draws are whatever Math.random gives during the call
CallVaRMonteCarlo ==
    /\ Idle
    /\ UNCHANGED dashVars
    /\ \E returns \in SeqsUpTo({Num(-1), Num(1)}, 2), c \in {Rat(1, 2), Rat(95, 100)},
          draws \in [1..Simulations -> RadiusDraws \X CosineDraws] :
        /\ ExactStdDev(returns)
        /\ LET r == calculateVaR(returns, c, "montecarlo", draws)
           IN  /\ op' = "calculateVaR"
               /\ args' = [returns |-> returns, confidence |-> c, method |-> "montecarlo"]
               /\ ret' = r.value
               /\ after' = r.returns
               /\ UNCHANGED prev

CallCVaR ==
    /\ Idle
    /\ UNCHANGED dashVars
    /\ \E returns \in ReturnSeries, c \in Confidences :
        LET r == calculateCVaR(returns, c)
        IN  /\ op' = "calculateCVaR"
            /\ args' = [returns |-> returns, confidence |-> c]
            /\ ret' = r.value
            /\ after' = r.returns
            /\ prev' = NoCall

CallTailRatio ==
    /\ Idle
    /\ UNCHANGED dashVars
    /\ \E returns \in ReturnSeries, p \in Percentiles :
        LET r == calculateTailRatio(returns, p)
        IN  /\ op' = "calculateTailRatio"
            /\ args' = [returns |-> returns, percentile |-> p]
            /\ ret' = r.value
            /\ after' = r.returns
            /\ prev' = NoCall

CallProfitFactor ==
    /\ Idle
    /\ UNCHANGED dashVars
    /\ \E trades \in PnlTrades :
        /\ op' = "calculateProfitFactor"
        /\ args' = [trades |-> trades]
        /\ ret' = calculateProfitFactor(trades)
        /\ after' = trades
        /\ prev' = NoCall

CallOmegaRatio ==
    /\ Idle
    /\ UNCHANGED dashVars
    /\ \E returns \in OmegaReturns, threshold \in OmegaThresholds :
        /\ op' = "calculateOmegaRatio"
        /\ args' = [returns |-> returns, threshold |-> threshold]
        /\ ret' = calculateOmegaRatio(returns, threshold)
        /\ after' = returns
        /\ prev' = NoCall

CallKellyCriterion ==
    /\ Idle
    /\ UNCHANGED dashVars
    /\ \E winRate \in WinRates, avgWinRatio \in KellyRatios, avgLossRatio \in KellyRatios :
        /\ op' = "calculateKellyCriterion"
        /\ args' = [winRate |-> winRate, avgWinRatio |-> avgWinRatio,
                    avgLossRatio |-> avgLossRatio]
        /\ ret' = calculateKellyCriterion(Num(winRate), avgWinRatio, avgLossRatio)
        /\ after' = <<>>
        /\ prev' = NoCall

CallStatsByMarket ==
    /\ Idle
    /\ UNCHANGED dashVars
    /\ \E trades \in Optional(MarketTrades) :
        LET r == calculateStatsByMarket(trades)
        IN  /\ op' = "calculateStatsByMarket"
            /\ args' = [trades |-> trades.items, defined |-> trades.defined]
            /\ ret' = r.value
            /\ after' = r.trades
            /\ prev' = NoCall

CallComputeReturns ==
    /\ Idle
    /\ UNCHANGED dashVars
    /\ \E equitySeries \in RawSeries :
        /\ op' = "computeReturnsFromEquitySeries"
        /\ args' = [equitySeries |-> equitySeries]
        /\ ret' = computeReturnsFromEquitySeries(equitySeries)
        /\ after' = equitySeries
        /\ prev' = NoCall

CallCalculateReturns ==
    /\ Idle
    /\ UNCHANGED dashVars
    /\ \E equitySeries \in RawSeries :
        LET pnlData == [i \in 1..Len(equitySeries) |-> PnlPoint(i, equitySeries[i])]
        IN  /\ op' = "calculateReturns"
            /\ args' = [equitySeries |-> equitySeries, pnlData |-> pnlData]
            /\ ret' = calculateReturns(pnlData)
            /\ after' = pnlData
            /\ prev' = NoCall

CallComputeFromHistoricalPnl ==
    /\ Idle
    /\ UNCHANGED dashVars
    /\ \E historicalPnl \in PnlHistories, mar \in {Num(0), Rat(1, 10)},
          denominator \in {"negative", "all"} :
        LET r == computeFromHistoricalPnl(historicalPnl, mar, denominator)
        IN  /\ op' = "computeFromHistoricalPnl"
            /\ args' = [historicalPnl |-> historicalPnl, mar |-> mar,
                        denominator |-> denominator]
            /\ ret' = r.value
            /\ after' = r.historicalPnl
            /\ prev' = NoCall

CallComputeSharpe ==
    /\ Idle
    /\ UNCHANGED dashVars
    /\ \E returns \in ReturnSeries, mar \in Mars :
        /\ op' = "computeSharpe"
        /\ args' = [returns |-> returns, mar |-> mar]
        /\ ret' = computeSharpe(returns, mar)
        /\ after' = returns
        /\ prev' = NoCall

CallComputeSortino ==
    /\ Idle
    /\ UNCHANGED dashVars
    /\ \E returns \in ReturnSeries, mar \in Mars, denominator \in {"negative", "all"} :
        /\ op' = "computeSortino"
        /\ args' = [returns |-> returns, mar |-> mar, denominator |-> denominator]
        /\ ret' = computeSortino(returns, mar, denominator)
        /\ after' = returns
        /\ prev' = NoCall

CallDetectPeriodsPerYear ==
    /\ Idle
    /\ UNCHANGED dashVars
    /\ \E timestamps \in Optional(StampLists) :
        /\ op' = "detectPeriodsPerYearFromTimestamps"
        /\ args' = [timestamps |-> timestamps]
        /\ ret' = detectPeriodsPerYearFromTimestamps(timestamps)
        /\ after' = timestamps.items
        /\ prev' = NoCall

CallComputeAnnualized ==
    /\ Idle
    /\ UNCHANGED dashVars
    /\ \E returns \in RatioReturns, timestamps \in Optional(StampLists),
          denominator \in {"negative", "all"} :
        /\ op' = "computeAnnualizedFromReturns"
        /\ args' = [returns |-> returns, timestamps |-> timestamps,
                    denominator |-> denominator]
        /\ ret' = computeAnnualizedFromReturns(returns, timestamps, Num(0), denominator)
        /\ after' = returns
        /\ prev' = NoCall

CallProcessPortfolioData ==
    /\ Idle
    /\ UNCHANGED dashVars
    /\ \E fills \in Optional(FillLists), historicalPnl \in PnlResponses :
        LET rawData == [fills |-> [fills |-> fills], historicalPnl |-> historicalPnl]
        IN  /\ op' = "processPortfolioData"
            /\ args' = [rawData |-> rawData]
            /\ ret' = processPortfolioData(rawData)
            /\ after' = historicalPnl.historicalPnl.items
            /\ prev' = NoCall

Drawdowns == {Num(0), Num(2), Undefined}

CallCalmarRatio ==
    /\ Idle
    /\ UNCHANGED dashVars
    /\ \E returns \in RatioReturns, maxDrawdown \in Drawdowns :
        /\ op' = "calculateCalmarRatio"
        /\ args' = [returns |-> returns, maxDrawdown |-> maxDrawdown,
                    periodsPerYear |-> TradingDays]
        /\ ret' = calculateCalmarRatio(returns, maxDrawdown, TradingDays)
        /\ after' = returns
        /\ prev' = NoCall

CallSterlingRatio ==
    /\ Idle
    /\ UNCHANGED dashVars
    /\ \E returns \in RatioReturns, avgDrawdown \in Drawdowns,
          riskFreeRate \in {Num(0), Num(300)} :
        /\ op' = "calculateSterlingRatio"
        /\ args' = [returns |-> returns, avgDrawdown |-> avgDrawdown,
                    riskFreeRate |-> riskFreeRate, periodsPerYear |-> TradingDays]
        /\ ret' = calculateSterlingRatio(returns, avgDrawdown, riskFreeRate, TradingDays)
        /\ after' = returns
        /\ prev' = NoCall

CallWinRate ==
    /\ Idle
    /\ UNCHANGED dashVars
    /\ \E trades \in WinRateTrades :
        /\ op' = "calculateWinRate"
        /\ args' = [trades |-> trades]
        /\ ret' = calculateWinRate(trades)
        /\ after' = trades
        /\ prev' = NoCall

CallMaxConsecutiveWins ==
    /\ Idle
    /\ UNCHANGED dashVars
    /\ \E trades \in StreakTrades :
        /\ op' = "calculateMaxConsecutiveWins"
        /\ args' = [trades |-> trades]
        /\ ret' = calculateMaxConsecutiveWins(trades)
        /\ after' = trades
        /\ prev' = NoCall

CallMaxConsecutiveLosses ==
    /\ Idle
    /\ UNCHANGED dashVars
    /\ \E trades \in StreakTrades :
        /\ op' = "calculateMaxConsecutiveLosses"
        /\ args' = [trades |-> trades]
        /\ ret' = calculateMaxConsecutiveLosses(trades)
        /\ after' = trades
        /\ prev' = NoCall

CallInformationRatio ==
    /\ Idle
    /\ UNCHANGED dashVars
    /\ \E portfolioReturns \in Optional(SeqsUpTo({Num(1), Num(2)}, 2)),
          benchmarkReturns \in Optional(SeqsUpTo({Num(0), Num(1)}, 2)) :
        /\ op' = "calculateInformationRatio"
        /\ args' = [portfolioReturns |-> portfolioReturns,
                    benchmarkReturns |-> benchmarkReturns]
        /\ ret' = calculateInformationRatio(portfolioReturns, benchmarkReturns)
        /\ after' = portfolioReturns.items
        /\ prev' = NoCall

CallBurkeRatio ==
    /\ Idle
    /\ UNCHANGED dashVars
    /\ \E returns \in Optional(RatioReturns),
          drawdowns \in Optional(SeqsUpTo({Num(0), Num(3), Num(4)}, 2)) :
        /\ op' = "calculateBurkeRatio"
        /\ args' = [returns |-> returns, drawdowns |-> drawdowns]
        /\ ret' = calculateBurkeRatio(returns, drawdowns, Num(0))
        /\ after' = returns.items
        /\ prev' = NoCall

CallGroupTradesByPeriod ==
    /\ Idle
    /\ UNCHANGED dashVars
    /\ \E trades \in Optional(DatedTrades), period \in Periods :
        /\ op' = "groupTradesByPeriod"
        /\ args' = [trades |-> trades, period |-> period]
        /\ ret' = groupTradesByPeriod(trades, period)
        /\ after' = trades.items
        /\ prev' = NoCall

CallUnrealizedPnL ==
    /\ Idle
    /\ UNCHANGED dashVars
    /\ \E positions \in Optional(PositionLists), currentPrices \in Optional(PriceMaps) :
        /\ op' = "calculateUnrealizedPnL"
        /\ args' = [positions |-> positions, currentPrices |-> currentPrices]
        /\ ret' = calculateUnrealizedPnL(positions, currentPrices)
        /\ after' = positions.items
        /\ prev' = NoCall

CallBeta ==
    /\ Idle
    /\ UNCHANGED dashVars
    /\ \E returns \in BetaSeries, marketReturns \in BetaSeries :
        /\ op' = "calculateBeta"
        /\ args' = [returns |-> returns, marketReturns |-> marketReturns]
        /\ ret' = calculateBeta(returns, marketReturns)
        /\ after' = returns
        /\ prev' = NoCall

CallPortfolioBeta ==
    /\ Idle
    /\ UNCHANGED dashVars
    /\ \E returns \in BetaSeries, marketReturns \in BetaSeries :
        /\ op' = "calculatePortfolioBeta"
        /\ args' = [returns |-> returns, marketReturns |-> marketReturns]
        /\ ret' = calculatePortfolioBeta(returns, marketReturns)
        /\ after' = returns
        /\ prev' = NoCall

IsMonteCarlo == op = "calculateVaR" /\ args.method = "montecarlo"

Return ==
    /\ ~Idle
    /\ UNCHANGED dashVars
    /\ op' = "none"
    /\ args' = <<>>
    /\ ret' = Num(0)
    /\ after' = <<>>
    /\ prev' = NoCall

\* the return of a Monte Carlo call to a caller that keeps what it passed and got
ReturnMonteCarlo ==
    /\ IsMonteCarlo
    /\ UNCHANGED dashVars
    /\ op' = "none"
    /\ args' = <<>>
    /\ ret' = Num(0)
    /\ after' = <<>>
    /\ prev' = [valid |-> TRUE, args |-> args, ret |-> ret]

Next ==
    \/ CallMaxDrawdown
    \/ CallDrawdownPeriods
    \/ CallVaR
    \/ CallVaRMonteCarlo
    \/ CallCVaR
    \/ CallTailRatio
    \/ CallProfitFactor
    \/ CallOmegaRatio
    \/ CallKellyCriterion
    \/ CallStatsByMarket
    \/ CallComputeReturns
    \/ CallCalculateReturns
    \/ CallComputeFromHistoricalPnl
    \/ Return

Spec == Init /\ [][Next]_vars

\* repeated Monte Carlo estimates, each compared with the one before it
NextMonteCarlo ==
    \/ CallVaRMonteCarlo
    \/ ReturnMonteCarlo

SpecMonteCarlo == Init /\ [][NextMonteCarlo]_vars

\* the ratio calculators of advanced-metrics.js and risk-metrics.js, and the
\* metrics bundle of the data service
NextRatios ==
    \/ CallComputeSharpe
    \/ CallComputeSortino
    \/ CallDetectPeriodsPerYear
    \/ CallComputeAnnualized
    \/ CallProcessPortfolioData
    \/ CallCalmarRatio
    \/ CallSterlingRatio
    \/ Return

SpecRatios == Init /\ [][NextRatios]_vars

\* the per-trade calculators of basic-metrics.js and the series calculators
\* that take a second array
NextTrades ==
    \/ CallStatsByMarket
    \/ CallWinRate
    \/ CallMaxConsecutiveWins
    \/ CallMaxConsecutiveLosses
    \/ CallInformationRatio
    \/ CallBurkeRatio
    \/ CallGroupTradesByPeriod
    \/ CallUnrealizedPnL
    \/ CallBeta
    \/ CallPortfolioBeta
    \/ Return

SpecTrades == Init /\ [][NextTrades]_vars

(***************************************************************************)
(* The calls of the liquidation functions.                                 *)
(***************************************************************************)
CallLiquidationPrice ==
    /\ Idle
    /\ UNCHANGED dashVars
    /\ \E position \in LeveragedPositions :
        /\ op' = "calculateLiquidationPrice"
        /\ args' = [position |-> position]
        /\ ret' = calculateLiquidationPrice(position)
        /\ after' = <<>>
        /\ prev' = NoCall

CallLiquidationDistance ==
    /\ Idle
    /\ UNCHANGED dashVars
    /\ \E position \in LeveragedPositions :
        \E currentPrice \in CurrentPrices(position) :
            /\ op' = "calculateLiquidationDistance"
            /\ args' = [position |-> position, currentPrice |-> currentPrice]
            /\ ret' = calculateLiquidationDistance(position, currentPrice)
            /\ after' = <<>>
            /\ prev' = NoCall

NextLiquidation ==
    \/ CallLiquidationPrice
    \/ CallLiquidationDistance
    \/ Return

SpecLiquidation == Init /\ [][NextLiquidation]_vars

(***************************************************************************)
(* The steps of the dashboard.  Each sets `op`, `args` and `ret` to the    *)
(* handler that ran, what it was given and what it returned.               *)
(***************************************************************************)
\* the clock advances
Tick ==
    /\ now < MaxTicks * RefreshInterval
    /\ now' = now + RefreshInterval
    /\ op' = "tick"
    /\ args' = <<>>
    /\ ret' = Num(0)
    /\ UNCHANGED <<after, prev, currentAddress, currentData, updateInterval, timers,
                   cache, subscribers, pending>>

\* what a handler has done when the step ends: returned cached or fetched data,
\* failed, or suspended at its client call; and the callbacks invoked meanwhile
Outcome(outcome, data, invoked) ==
    [outcome |-> outcome, data |-> data, invoked |-> invoked]

\* DataService.loadPortfolioData up to its first await, called from outside the
\* application
CallLoadPortfolioData ==
    /\ \E address \in Addresses, subaccountNumber \in SubaccountNumbers :
        LET cacheKey == CacheKey(address, subaccountNumber)
            call     == ClientCall("caller", address, subaccountNumber)
        IN  /\ op' = "loadPortfolioData"
            /\ args' = call
            /\ IF CacheHit(cache, cacheKey, now)
               THEN /\ ret' = Outcome("cached", cache[cacheKey].data, <<>>)
                    /\ UNCHANGED pending
               ELSE /\ Len(pending) < MaxPending
                    /\ ret' = Outcome("pending", NoData, <<>>)
                    /\ pending' = Append(pending, call)
    /\ UNCHANGED <<after, prev, currentAddress, currentData, updateInterval, timers,
                   cache, subscribers, now>>

\* the client call at position i of `pending` is answered, or fails, and
\* loadPortfolioData and its caller run to their end
ClientResponds ==
    /\ \E i \in 1..Len(pending), ok \in BOOLEAN :
        LET call          == pending[i]
            cacheKey      == CacheKey(call.address, call.subaccountNumber)
            processedData == PortfolioData(call.address, now)
            n    == notifySubscribers(subscribers, currentData, "portfolio", processedData)
            auto == startAutoUpdate(timers, updateInterval, n.subscribers)
        IN  /\ pending' = RemoveAt(pending, i)
            /\ op' = "loadPortfolioData"
            /\ args' = call
            /\ IF ~ok
               \* the catch logs and rethrows; the caller's catch reports the error
               THEN /\ ret' = Outcome("failed", NoData, <<>>)
                    /\ UNCHANGED <<currentData, updateInterval, timers, cache,
                                   subscribers>>
               ELSE /\ ret' = Outcome("fetched", processedData, n.invoked)
                    /\ cache' = setCachedData(cache, cacheKey, processedData,
                                              PortfolioTtl, now)
                    /\ CASE call.caller = "loadDashboard" ->
                                /\ currentData' = processedData
                                /\ timers' = auto.timers
                                /\ updateInterval' = auto.updateInterval
                                /\ subscribers' = auto.subscribers
                         [] call.caller = "refreshData" ->
                                /\ currentData' = processedData
                                /\ subscribers' = n.subscribers
                                /\ UNCHANGED <<updateInterval, timers>>
                         [] OTHER ->
                                /\ currentData' = n.currentData
                                /\ subscribers' = n.subscribers
                                /\ UNCHANGED <<updateInterval, timers>>
    /\ UNCHANGED <<after, prev, currentAddress, now>>

\* DashboardApp.loadDashboard up to the end, or up to its client call
LoadDashboard ==
    /\ Len(timers) + Cardinality({i \in 1..Len(pending) :
                                     pending[i].caller = "loadDashboard"}) < MaxTimers
    /\ \E address \in Addresses :
        LET cacheKey == CacheKey(address, 0)
            call     == ClientCall("loadDashboard", address, 0)
            auto     == startAutoUpdate(timers, updateInterval, subscribers)
        IN  /\ currentAddress' = address
            /\ op' = "loadDashboard"
            /\ args' = call
            /\ IF CacheHit(cache, cacheKey, now)
               THEN /\ ret' = Outcome("cached", cache[cacheKey].data, <<>>)
                    /\ currentData' = cache[cacheKey].data
                    /\ timers' = auto.timers
                    /\ updateInterval' = auto.updateInterval
                    /\ subscribers' = auto.subscribers
                    /\ UNCHANGED pending
               ELSE /\ Len(pending) < MaxPending
                    /\ ret' = Outcome("pending", NoData, <<>>)
                    /\ pending' = Append(pending, call)
                    /\ UNCHANGED <<currentData, updateInterval, timers, subscribers>>
    /\ UNCHANGED <<after, prev, cache, now>>

\* DashboardApp.refreshData, run by the refresh timer or by the keyboard shortcut
RefreshData ==
    /\ op' = "refreshData"
    /\ LET cacheKey == CacheKey(currentAddress, 0)
           call     == ClientCall("refreshData", currentAddress, 0)
       IN  /\ args' = call
           /\ IF currentAddress = NullAddress
              THEN /\ ret' = Outcome("none", NoData, <<>>)
                   /\ UNCHANGED <<currentData, pending>>
              ELSE IF CacheHit(cache, cacheKey, now)
                   THEN /\ ret' = Outcome("cached", cache[cacheKey].data, <<>>)
                        /\ currentData' = cache[cacheKey].data
                        /\ UNCHANGED pending
                   ELSE /\ Len(pending) < MaxPending
                        /\ ret' = Outcome("pending", NoData, <<>>)
                        /\ pending' = Append(pending, call)
                        /\ UNCHANGED currentData
    /\ UNCHANGED <<after, prev, currentAddress, updateInterval, timers, cache,
                   subscribers, now>>

\* the callbacks of an event, none when the map has no array for it
CallbacksOf(subs, event) == IF event \in DOMAIN subs THEN subs[event] ELSE <<>>

Subscribe(event) ==
    /\ \E callback \in SubscriberCallbacks :
        /\ Len(CallbacksOf(subscribers, event)) < MaxSubscribers
        /\ subscribers' = subscribe(subscribers, event, callback)
        /\ op' = "subscribe"
        /\ args' = [event |-> event, callback |-> callback]
        /\ ret' = Num(0)
    /\ UNCHANGED <<after, prev, currentAddress, currentData, updateInterval, timers,
                   cache, pending, now>>

Unsubscribe ==
    /\ \E event \in Events, callback \in SubscriberCallbacks :
        /\ subscribers' = unsubscribe(subscribers, event, callback)
        /\ op' = "unsubscribe"
        /\ args' = [event |-> event, callback |-> callback]
        /\ ret' = Num(0)
    /\ UNCHANGED <<after, prev, currentAddress, currentData, updateInterval, timers,
                   cache, pending, now>>

\* a call of notifySubscribers; `args` keeps the array of the event as the call
\* finds it
NotifySubscribers ==
    /\ \E event \in Events, address \in Addresses :
        LET data == PortfolioData(address, now)
            n    == notifySubscribers(subscribers, currentData, event, data)
        IN  /\ subscribers' = n.subscribers
            /\ currentData' = n.currentData
            /\ op' = "notifySubscribers"
            /\ args' = [event |-> event, data |-> data,
                        callbacks |-> CallbacksOf(subscribers, event)]
            /\ ret' = n.invoked
    /\ UNCHANGED <<after, prev, currentAddress, updateInterval, timers, cache, pending,
                   now>>

\* subscriptions, cancellations and notifications in any order
NextSubscribers ==
    \/ \E event \in Events : Subscribe(event)
    \/ Unsubscribe
    \/ NotifySubscribers

SpecSubscribers == Init /\ [][NextSubscribers]_vars

\* the data service called from outside the application, with subscribers
NextLoader ==
    \/ CallLoadPortfolioData
    \/ ClientResponds
    \/ Subscribe("portfolio")
    \/ Tick

SpecLoader == Init /\ [][NextLoader]_vars

\* the application: loads and refreshes, the answers of the client and the clock
NextDashboard ==
    \/ LoadDashboard
    \/ RefreshData
    \/ ClientResponds
    \/ Tick

SpecDashboard == Init /\ [][NextDashboard]_vars

(***************************************************************************)
(* The drawdown of a series of numbers, stated over the whole series       *)
(* (1-based positions).                                                    *)
(***************************************************************************)
MaxOf(S) == CHOOSE x \in S : \A y \in S : y <= x

MinOf(S) == CHOOSE x \in S : \A y \in S : x <= y

RunningPeak(v, i) == MaxOf({v[j] : j \in 1..i})

DrawdownAt(v, i) == RunningPeak(v, i) - v[i]

WorstDrawdown(v) == MaxOf({DrawdownAt(v, i) : i \in 1..Len(v)})

\* the first position where the worst drawdown is reached
WorstPosition(v) == MinOf({i \in 1..Len(v) : DrawdownAt(v, i) = WorstDrawdown(v)})

\* the position where the running peak in force at i was set
PeakPosition(v, i) == MinOf({j \in 1..i : v[j] = RunningPeak(v, i)})

StrictlyIncreasing(v) == \A i \in 1..(Len(v) - 1) : v[i] < v[i + 1]

OnNumbers(name) == op = name /\ args.form = "numbers" /\ Len(args.series) > 0

\* C1: on a non-empty series of positive numbers calculateMaxDrawdown returns the
\* largest (running peak - sample) as value, that drawdown over its running peak
\* times 100 as percentage, the first index reaching it as troughIndex and the
\* samples from that peak's index to the trough as duration; all are 0 on a strictly
\* increasing series, and [100,80,90,70,120] gives trough 3, value 30, percentage 30.
C1_MaxDrawdownValue ==
    OnNumbers("calculateMaxDrawdown") =>
        LET v == args.series
            t == WorstPosition(v)
        IN  /\ ret.value = Num(WorstDrawdown(v))
            /\ ret.percentage = Rat(WorstDrawdown(v) * 100, RunningPeak(v, t))
            /\ ret.troughIndex = t - 1
            /\ ret.duration = t - PeakPosition(v, t)
            /\ StrictlyIncreasing(v) =>
                   ret.value = Num(0) /\ ret.percentage = Num(0) /\ ret.duration = 0
            /\ v = <<100, 80, 90, 70, 120>> =>
                   ret.troughIndex = 3 /\ ret.value = Num(30) /\ ret.percentage = Num(30)

C1_Witness ==
    /\ OnNumbers("calculateMaxDrawdown")
    /\ args.series = <<100, 80, 90, 70, 120>>
    /\ ret.troughIndex = 3
    /\ ret.duration = 3

\* C2: with a non-zero drawdown, the peakIndex calculateMaxDrawdown returns is the
\* index of the peak that preceded the worst drawdown: peakIndex <= troughIndex and
\* equity[peakIndex] is the running peak in force at the trough.
C2_PeakPrecedesTrough ==
    (OnNumbers("calculateMaxDrawdown") /\ ret.value # Num(0)) =>
        /\ ret.peakIndex <= ret.troughIndex
        /\ args.series[ret.peakIndex + 1] = RunningPeak(args.series, ret.troughIndex + 1)

\* C3: calculateMaxDrawdown and calculateDrawdownPeriods return on the records
\* [{equity: v[0]}, ...] exactly what they return on the bare numbers v.
C3_RecordsAsNumbers ==
    /\ (op = "calculateMaxDrawdown" /\ args.form = "records") =>
           ret = calculateMaxDrawdown(AsNumbers(args.series))
    /\ (op = "calculateDrawdownPeriods" /\ args.form = "records") =>
           ret = calculateDrawdownPeriods(AsNumbers(args.series), Num(args.threshold))

IsHistorical == op = "calculateVaR" /\ args.method = "historical" /\ Len(args.returns) > 0

\* C4: on a non-empty return series the historical VaR is >= 0 and does not decrease
\* when the confidence increases.
C4_HistoricalVaRMonotone ==
    IsHistorical =>
        /\ JsGe(ret, Num(0))
        /\ \A c2 \in Confidences :
               JsLe(args.confidence, c2) =>
                   JsLe(ret, calculateVaR(args.returns, c2, "historical", <<>>).value)

\* C5: on a non-empty return series calculateCVaR(returns, c) is at least the
\* historical calculateVaR(returns, c).
C5_CVaRAtLeastVaR ==
    (op = "calculateCVaR" /\ Len(args.returns) > 0) =>
        JsGe(ret, calculateVaR(args.returns, args.confidence, "historical", <<>>).value)

\* C7: two Monte Carlo estimates with the same returns and confidence (the function
\* takes no random source) return the same value.
C7_MonteCarloRepeatable ==
    (IsMonteCarlo /\ prev.valid /\ prev.args = args) => prev.ret = ret

\* C6: no metric function modifies the array its caller passed: after a call of
\* calculateVaR, calculateCVaR, calculateTailRatio, calculateStatsByMarket or
\* computeFromHistoricalPnl the array holds the same elements in the same order.
C6_InputsUnchanged ==
    /\ op \in {"calculateVaR", "calculateCVaR", "calculateTailRatio"} =>
           after = args.returns
    /\ op = "calculateStatsByMarket" => after = args.trades
    /\ op = "computeFromHistoricalPnl" => after = args.historicalPnl

\* a call that sorted: the argument was out of order, and is as it was
C6_Witness ==
    \/ /\ op \in {"calculateVaR", "calculateCVaR", "calculateTailRatio"}
       /\ args.returns # SortAsc(args.returns)
       /\ after = args.returns
       /\ ret # Num(0)
    \/ /\ op = "computeFromHistoricalPnl"
       /\ args.historicalPnl # SortByCreatedAt(args.historicalPnl)
       /\ after = args.historicalPnl

(***************************************************************************)
(* The gain-side and the loss-side aggregate of a list of integers.        *)
(***************************************************************************)
RECURSIVE SumInts(_)
SumInts(xs) == IF Len(xs) = 0 THEN 0 ELSE xs[1] + SumInts(Tail(xs))

GainSide(xs) == SumInts([i \in 1..Len(xs) |-> IF xs[i] > 0 THEN xs[i] ELSE 0])

LossSide(xs) == SumInts([i \in 1..Len(xs) |-> IF xs[i] < 0 THEN -xs[i] ELSE 0])

\* the realized P&L of each trade, a missing one counted 0
PnlList(trades) ==
    [i \in 1..Len(trades) |->
        IF trades[i].realizedPnl.t = "num" THEN trades[i].realizedPnl.n ELSE 0]

\* each return's distance above the threshold
ExcessList(returns, threshold) == [i \in 1..Len(returns) |-> returns[i].n - threshold.n]

\* the aggregates of the call in the current state
Aggregates ==
    LET xs == IF op = "calculateProfitFactor" THEN PnlList(args.trades)
              ELSE ExcessList(args.returns, args.threshold)
    IN  [gain |-> GainSide(xs), loss |-> LossSide(xs)]

IsSentinelRatio == op \in {"calculateProfitFactor", "calculateOmegaRatio"}

\* C8 as stated: profit factor and Omega ratio are 999 exactly when the loss-side
\* aggregate is zero and the gain-side aggregate is positive, and 0 when both are zero.
C8_SentinelExactly ==
    IsSentinelRatio =>
        /\ ret = Num(999) <=> (Aggregates.loss = 0 /\ Aggregates.gain > 0)
        /\ (Aggregates.loss = 0 /\ Aggregates.gain = 0) => ret = Num(0)

\* C8 as amended: profit factor and Omega ratio are 999 when the loss-side aggregate
\* is zero and the gain-side aggregate is positive, 0 when both are zero, and
\* gain / loss when the loss-side aggregate is not zero (so 999 also when the gains
\* are 999 times the losses).
C8_SentinelOrRatio ==
    IsSentinelRatio =>
        /\ (Aggregates.loss = 0 /\ Aggregates.gain > 0) => ret = Num(999)
        /\ (Aggregates.loss = 0 /\ Aggregates.gain = 0) => ret = Num(0)
        /\ Aggregates.loss # 0 => ret = Rat(Aggregates.gain, Aggregates.loss)

C8_Witness ==
    /\ IsSentinelRatio
    /\ Aggregates.loss = 0
    /\ Aggregates.gain > 0
    /\ ret = Num(999)

\* (p*b - q)/b * 100 in closed form: (w*aw - (100 - w)*al) / aw
KellyPercent(w, aw, al) == Rat(w * aw.n * al.d - (100 - w) * al.n * aw.d, aw.n * al.d)

\* C9: calculateKellyCriterion returns a value in [0, 25]: 0 when avgLossRatio is 0
\* or avgWinRatio/avgLossRatio is 0, otherwise (p*b - q)/b * 100 clamped to [0, 25];
\* winRate 60, avgWinRatio 2, avgLossRatio 1 gives 25.
C9_KellyClamped ==
    op = "calculateKellyCriterion" =>
        LET w  == args.winRate
            aw == args.avgWinRatio
            al == args.avgLossRatio
            k  == KellyPercent(w, aw, al)
        IN  /\ JsGe(ret, Num(0))
            /\ JsLe(ret, Num(25))
            /\ (al.n = 0 \/ aw.n = 0) => ret = Num(0)
            /\ (al.n # 0 /\ aw.n # 0) =>
                   ret = (IF k.n < 0 THEN Num(0) ELSE IF k.n > 25 * k.d THEN Num(25) ELSE k)
            /\ (w = 60 /\ aw = Num(2) /\ al = Num(1)) => ret = Num(25)

\* the capped case of the claim, and a case strictly inside the range
C9_Witness ==
    /\ op = "calculateKellyCriterion"
    /\ \/ args.winRate = 60 /\ args.avgWinRatio = Num(2) /\ args.avgLossRatio = Num(1)
          /\ ret = Num(25)
       \/ JsGt(ret, Num(0)) /\ JsLt(ret, Num(25))

(***************************************************************************)
(* The returns of an equity series, stated over the whole series.          *)
(***************************************************************************)
\* the number an entry stands for: a missing entry counts 0
EquityNumber(x) == IF x.t \in {"num", "str"} THEN x.n ELSE 0

\* the 1-based positions whose previous entry is strictly positive
Emitting(es) == {i \in 2..Len(es) : EquityNumber(es[i - 1]) > 0}

\* the k-th smallest element of a set of integers
Nth(S, k) == CHOOSE x \in S : Cardinality({y \in S : y <= x}) = k

ExpectedReturns(es, scale) ==
    [k \in 1..Cardinality(Emitting(es)) |->
        LET i == Nth(Emitting(es), k)
        IN  Rat(scale * (EquityNumber(es[i]) - EquityNumber(es[i - 1])),
                EquityNumber(es[i - 1]))]

IsReturns == op \in {"computeReturnsFromEquitySeries", "calculateReturns"}

\* C10: computeReturnsFromEquitySeries and DataService.calculateReturns emit one
\* return for the index i >= 1 if and only if equity[i-1] is strictly positive, in
\* series order, with no placeholder for a skipped pair; [100, 110, 99] yields two.
C10_ReturnsEmitted ==
    IsReturns =>
        /\ ret = ExpectedReturns(args.equitySeries,
                                 IF op = "calculateReturns" THEN 100 ELSE 1)
        /\ Len(ret) = Cardinality(Emitting(args.equitySeries))
        /\ args.equitySeries = <<Num(100), Num(110), Num(99)>> => Len(ret) = 2

\* a series with a skipped pair and an emitted one
C10_Witness ==
    /\ IsReturns
    /\ Len(ret) >= 1
    /\ Len(ret) < Len(args.equitySeries) - 1

(***************************************************************************)
(* The ratios as numbers.                                                  *)
(***************************************************************************)
\* C11: every ratio output is a finite number: what computeSharpe and computeSortino
\* return, the four ratios computeAnnualizedFromReturns returns, and the sharpeRatio,
\* sortinoRatio and calmarRatio of the bundle processPortfolioData builds are never
\* null, NaN or an infinity.
C11_RatiosFinite ==
    /\ op \in {"computeSharpe", "computeSortino"} => IsNum(ret)
    /\ op = "computeAnnualizedFromReturns" =>
           /\ IsNum(ret.sharpe)
           /\ IsNum(ret.sortino)
           /\ IsNum(ret.sharpeAnnualized)
           /\ IsNum(ret.sortinoAnnualized)
    /\ op = "processPortfolioData" =>
           /\ IsNum(ret.metrics.sharpeRatio)
           /\ IsNum(ret.metrics.sortinoRatio)
           /\ IsNum(ret.metrics.calmarRatio)

\* the annualized return mean(returns) * periodsPerYear of the call, as a number
AnnualReturn == JsMul(meanAdvanced(args.returns), args.periodsPerYear)

\* C12: with a non-empty return series and a zero drawdown, calculateCalmarRatio
\* returns 999 when the annualized return is > 0 and 0 otherwise, and
\* calculateSterlingRatio returns 999 when the annualized excess return is > 0 and 0
\* otherwise.
C12_ZeroDrawdownSentinel ==
    /\ (op = "calculateCalmarRatio" /\ Len(args.returns) > 0
            /\ args.maxDrawdown = Num(0)) =>
           ret = (IF JsGt(AnnualReturn, Num(0)) THEN Num(999) ELSE Num(0))
    /\ (op = "calculateSterlingRatio" /\ Len(args.returns) > 0
            /\ args.avgDrawdown = Num(0)) =>
           ret = (IF JsGt(JsSub(AnnualReturn, args.riskFreeRate), Num(0))
                  THEN Num(999) ELSE Num(0))

\* the number of trades of the list whose realizedPnl satisfies P
CountTrades(trades, P(_)) == Cardinality({i \in 1..Len(trades) : P(trades[i].realizedPnl)})

IsClosedPnl(x) == x.t \notin {"undef", "null"}

IsWinPnl(x) == x.t = "num" /\ x.n > 0

IsLossPnl(x) == x.t = "num" /\ x.n < 0

\* C13: calculateWinRate returns 100 * (trades with realizedPnl > 0) / (closed
\* trades), a trade being closed when its realizedPnl is neither null nor undefined;
\* a realizedPnl of 0 counts in the denominator only, and the result is 0 when no
\* trade is closed.
C13_WinRateOverClosed ==
    op = "calculateWinRate" =>
        LET closed == CountTrades(args.trades, IsClosedPnl)
            wins   == CountTrades(args.trades, IsWinPnl)
        IN  ret = (IF closed = 0 THEN Num(0) ELSE Rat(100 * wins, closed))

\* the longest run of consecutive trades whose realizedPnl satisfies P
LongestRun(trades, P(_)) ==
    LET n    == Len(trades)
        runs == {p \in (1..n) \X (1..n) :
                    /\ p[1] <= p[2]
                    /\ \A m \in p[1]..p[2] : P(trades[m].realizedPnl)}
    IN  MaxOf({0} \cup {p[2] - p[1] + 1 : p \in runs})

\* C14: in input order calculateMaxConsecutiveWins returns the length of the longest
\* contiguous run of trades with realizedPnl > 0 and calculateMaxConsecutiveLosses
\* that of the longest run with realizedPnl < 0; a realizedPnl of 0 ends the run and
\* counts in neither.
C14_LongestStreak ==
    /\ op = "calculateMaxConsecutiveWins" => ret = LongestRun(args.trades, IsWinPnl)
    /\ op = "calculateMaxConsecutiveLosses" => ret = LongestRun(args.trades, IsLossPnl)

\* a run of two, cut by a trade with realizedPnl 0 from a later one
C14_Witness ==
    /\ op \in {"calculateMaxConsecutiveWins", "calculateMaxConsecutiveLosses"}
    /\ Len(args.trades) = 4
    /\ args.trades[3].realizedPnl = Num(0)
    /\ args.trades[1].realizedPnl = args.trades[2].realizedPnl
    /\ args.trades[1].realizedPnl = args.trades[4].realizedPnl
    /\ ret = 2

(***************************************************************************)
(* The drawdown periods of a series of numbers, stated over the whole      *)
(* series (1-based positions).                                             *)
(***************************************************************************)
\* the sample at i is below the running peak
Below(v, i) == i >= 1 /\ i <= Len(v) /\ v[i] < RunningPeak(v, i)

\* the positions where a period opens
PeriodStarts(v) == {a \in 1..Len(v) : Below(v, a) /\ ~Below(v, a - 1)}

\* the last position of the period opened at a
PeriodLast(v, a) == MaxOf({j \in a..Len(v) : \A m \in a..j : Below(v, m)})

PeriodTrough(v, a) == MinOf({v[m] : m \in a..PeriodLast(v, a)})

PeriodDepth(v, a) == RunningPeak(v, a) - PeriodTrough(v, a)

\* the periods whose depth percentage is strictly greater than the threshold
KeptStarts(v, threshold) ==
    {a \in PeriodStarts(v) : PeriodDepth(v, a) * 100 > threshold * RunningPeak(v, a)}

\* C15: calculateDrawdownPeriods(equity, threshold) returns, in series order, exactly
\* the periods whose depth percentage is strictly greater than threshold; a period
\* opens at the first sample below the running peak and closes at the first later
\* sample at or above that peak; a period still open at the last sample is returned
\* with recovery 0 when its depth percentage exceeds threshold.
C15_PeriodsAboveThreshold ==
    OnNumbers("calculateDrawdownPeriods") =>
        LET v    == args.series
            kept == KeptStarts(v, args.threshold)
        IN  /\ Len(ret) = Cardinality(kept)
            /\ \A k \in 1..Len(ret) :
                   LET a == Nth(kept, k)
                       b == PeriodLast(v, a)
                   IN  /\ ret[k].startIndex = a - 2
                       /\ ret[k].peakValue = Num(RunningPeak(v, a))
                       /\ ret[k].troughValue = Num(PeriodTrough(v, a))
                       /\ ret[k].depth = Num(PeriodDepth(v, a))
                       /\ ret[k].depthPct = Rat(PeriodDepth(v, a) * 100, RunningPeak(v, a))
                       /\ JsGt(ret[k].depthPct, Num(args.threshold))
                       /\ b < Len(v) => ret[k].endIndex = b
                       /\ b = Len(v) => ret[k].recovery = 0

\* a period dropped by the threshold, and a period still open at the last sample kept
C15_Witness ==
    /\ OnNumbers("calculateDrawdownPeriods")
    /\ Cardinality(PeriodStarts(args.series)) > Len(ret)
    /\ Len(ret) >= 1
    /\ ret[Len(ret)].recovery = 0
    /\ PeriodLast(args.series, ret[Len(ret)].startIndex + 2) = Len(args.series)

\* C16: for every closed period calculateDrawdownPeriods returns, recovery is the
\* index of the sample that closes the period minus the index of the sample where
\* troughValue was reached; [100, 70, 80, 100] gives recovery 2.
C16_RecoveryFromTrough ==
    OnNumbers("calculateDrawdownPeriods") =>
        LET v == args.series
        IN  /\ \A k \in 1..Len(ret) :
                   LET a      == ret[k].startIndex + 2
                       b      == PeriodLast(v, a)
                       trough == MinOf({m \in a..b : v[m] = PeriodTrough(v, a)})
                   IN  b < Len(v) => ret[k].recovery = (b + 1) - trough
            /\ (v = <<100, 70, 80, 100>> /\ Len(ret) = 1) => ret[1].recovery = 2

\* the timestamps supplied to the call, none when the argument is missing
Supplied == IF args.timestamps.defined THEN Len(args.timestamps.items) ELSE 0

\* C17: detectPeriodsPerYearFromTimestamps returns max(1, secondsPerYear / medianGap)
\* for every input, with a median gap of 3600 s when fewer than two timestamps are
\* supplied: the result is always >= 1, and the annualized ratios are the per-period
\* ratios times sqrt(periodsPerYear) in every case.
C17_PeriodsPerYearAtLeastOne ==
    /\ op = "detectPeriodsPerYearFromTimestamps" =>
           /\ JsGe(ret, Num(1))
           /\ Supplied < 2 => ret = JsMax(Num(1), JsDiv(SecondsPerYear, Num(3600)))
    /\ op = "computeAnnualizedFromReturns" =>
           /\ JsGe(ret.ppy, Num(1))
           /\ ret.sharpeAnnualized = JsMul(ret.sharpe, JsSqrt(ret.ppy))

\* the call was given no array where the function reads one
MissingArgument ==
    \/ op = "calculateInformationRatio" /\ ~args.benchmarkReturns.defined
    \/ op = "calculateBurkeRatio" /\ ~args.drawdowns.defined
    \/ op = "groupTradesByPeriod" /\ ~args.trades.defined
    \/ op = "calculateStatsByMarket" /\ ~args.defined
    \/ op = "calculateUnrealizedPnL" /\ ~args.currentPrices.defined

\* C18: no engine function fails on an empty or undefined collection argument:
\* calculateInformationRatio with an undefined benchmark, calculateBurkeRatio with
\* undefined drawdowns, groupTradesByPeriod and calculateStatsByMarket with undefined
\* trades and calculateUnrealizedPnL with undefined prices return instead of throwing.
C18_NoFailurePath == MissingArgument => ret # Thrown

\* C19: computeSharpe(returns, mar) uses the population standard deviation: it equals
\* mean(returns - mar) / populationStdDev(returns), which is
\* calculateSharpeRatio(returns, mar, 1).
C19_SharpePopulation ==
    op = "computeSharpe" => ret = calculateSharpeRatio(args.returns, args.mar, Num(1))

\* the integers of a series of numbers
Ints(xs) == [i \in 1..Len(xs) |-> xs[i].n]

\* covariance / variance over the first n elements of each series, the means taken
\* over those n elements too; 0 when that variance is 0
AlignedBeta(x, y) ==
    LET n   == MinLen(x, y)
        sx  == SumInts(SubSeq(x, 1, n))
        sy  == SumInts(SubSeq(y, 1, n))
        cov == SumInts([i \in 1..n |-> (n * x[i] - sx) * (n * y[i] - sy)])
        var == SumInts([i \in 1..n |-> (n * y[i] - sy) * (n * y[i] - sy)])
    IN  IF var = 0 THEN Num(0) ELSE Rat(cov, var)

\* C20: beta is covariance / variance(market) over the first min(len) aligned
\* elements, means included, so calculateBeta and calculatePortfolioBeta return the
\* same value for every pair of inputs, of different lengths too, and 0 when the
\* market variance is 0.
C20_BetaAligned ==
    op \in {"calculateBeta", "calculatePortfolioBeta"} =>
        /\ ret = AlignedBeta(Ints(args.returns), Ints(args.marketReturns))
        /\ calculateBeta(args.returns, args.marketReturns)
               = calculatePortfolioBeta(args.returns, args.marketReturns)

MaxDrawdownFields == {"value", "percentage", "duration", "peakIndex", "troughIndex"}

\* the bundle computed from no fills and no equity history
EmptyInputs ==
    /\ Len(args.rawData.fills.fills.items) = 0
    /\ Len(args.rawData.historicalPnl.historicalPnl.items) = 0

\* C21: the result of calculateMaxDrawdown has the fields value, percentage,
\* duration, peakIndex and troughIndex for every input, the empty series included,
\* and every metric of the bundle computed from no fills and no equity history is
\* present with the default 0.
C21_SameFields ==
    /\ op = "calculateMaxDrawdown" => DOMAIN ret = MaxDrawdownFields
    /\ (op = "processPortfolioData" /\ EmptyInputs) =>
        /\ \A f \in {"totalPnL", "winRate", "profitFactor", "expectancy", "sharpeRatio",
                     "sortinoRatio", "calmarRatio", "valueAtRisk", "conditionalVaR"} :
               ret.metrics[f] = Num(0)
        /\ DOMAIN ret.metrics.maxDrawdown = MaxDrawdownFields
        /\ ret.metrics.maxDrawdown.value = Num(0)
        /\ ret.metrics.maxDrawdown.percentage = Num(0)

\* the trades whose realizedPnl is the one of the supplied fills
SuppliedTrades(fills) ==
    [i \in 1..Len(fills) |-> Trade(fills[i].market, fills[i].realizedPnl)]

\* the supplied fills of a call of processPortfolioData
SuppliedFills == args.rawData.fills.fills.items

\* some supplied fill carries a realized P&L, and their sum is not 0
NonZeroRealized ==
    /\ \E i \in 1..Len(SuppliedFills) : IsNum(SuppliedFills[i].realizedPnl)
    /\ calculatePnL(SuppliedTrades(SuppliedFills)) # Num(0)

\* C22: in the bundle of processPortfolioData totalPnL is the sum of realizedPnl over
\* the supplied fills (a missing one counted 0), winRate, profitFactor and expectancy
\* are computed from the same values, and fills whose realized P&L does not sum to 0
\* give a totalPnL that is not 0.
C22_BundleFromRealizedPnl ==
    op = "processPortfolioData" =>
        LET trades == SuppliedTrades(SuppliedFills)
        IN  /\ ret.metrics.totalPnL = calculatePnL(trades)
            /\ ret.metrics.winRate = calculateWinRate(trades)
            /\ ret.metrics.profitFactor = calculateProfitFactor(trades)
            /\ ret.metrics.expectancy = calculateExpectancy(trades)
            /\ NonZeroRealized => ret.metrics.totalPnL # Num(0)

\* the equity points of the response handed to processPortfolioData
SuppliedPoints == args.rawData.historicalPnl.historicalPnl.items

\* the equity of each point as a number, as DataService.calculateReturns reads it
EquityOf(points) == [i \in 1..Len(points) |-> ParseFloat(OrZero(points[i].equity))]

\* some point of the series is below an earlier one
FallsBelowEarlier(equity) ==
    \E i \in 1..Len(equity) : \E j \in (i + 1)..Len(equity) : JsLt(equity[j], equity[i])

\* C23: the bundle's maxDrawdown is calculateMaxDrawdown of the equity points the
\* returns are derived from: its value is > 0 whenever the historical equity falls
\* below an earlier value, and calmarRatio is computed from that maximum drawdown.
C23_DrawdownOfEquitySeries ==
    op = "processPortfolioData" =>
        LET equity == EquityOf(SuppliedPoints)
            md     == ret.metrics.maxDrawdown
        IN  /\ md.value = calculateMaxDrawdown(equity).value
            /\ FallsBelowEarlier(equity) => JsGt(md.value, Num(0))
            /\ \E d \in {md.value, md.percentage} :
                   ret.metrics.calmarRatio
                       = calculateCalmarRatio(ReturnsOfResponse(args.rawData.historicalPnl),
                                              d, TradingDays)

\* a property that is present and not 0
Present(x) == IsNum(x) /\ x.n # 0

\* entry price, size and leverage are all given
Complete(position) ==
    Present(position.entryPrice) /\ Present(position.size) /\ Present(position.leverage)

\* the maintenance margin in force: the one given, or 0.006
MarginOf(position) ==
    IF position.maintenanceMargin = Undefined THEN Rat(6, 1000)
    ELSE position.maintenanceMargin

\* d = 1/leverage - maintenanceMargin
DistanceFraction(position) ==
    JsSub(JsDiv(Num(1), position.leverage), MarginOf(position))

\* C24: calculateLiquidationPrice returns 0 when entryPrice, size or leverage is
\* missing or 0, and otherwise entryPrice*(1-d) for a LONG and entryPrice*(1+d) for
\* any other side, d = 1/leverage - maintenanceMargin: below the entry for a long
\* and above it for a short when 1/leverage > maintenanceMargin.
\* calculateLiquidationDistance is positive for a long whose current price is above
\* its liquidation price, smaller at a lower price, and 0 at the liquidation price.
C24_Liquidation ==
    /\ op = "calculateLiquidationPrice" =>
        LET position == args.position
            d        == DistanceFraction(position)
        IN  IF ~Complete(position) THEN ret = Num(0)
            ELSE /\ position.side = "LONG" =>
                        /\ ret = JsMul(position.entryPrice, JsSub(Num(1), d))
                        /\ JsGt(d, Num(0)) => JsLt(ret, position.entryPrice)
                 /\ position.side # "LONG" =>
                        /\ ret = JsMul(position.entryPrice, JsAdd(Num(1), d))
                        /\ JsGt(d, Num(0)) => JsGt(ret, position.entryPrice)
    /\ (op = "calculateLiquidationDistance" /\ Complete(args.position)
            /\ args.position.side = "LONG" /\ IsNum(args.currentPrice)
            /\ JsGt(args.currentPrice, Num(0))) =>
        LET position         == args.position
            liquidationPrice == calculateLiquidationPrice(position)
        IN  /\ JsGt(args.currentPrice, liquidationPrice) =>
                /\ JsGt(ret, Num(0))
                /\ \A higher \in {Num(50), Num(100)} :
                       JsGt(higher, args.currentPrice) =>
                           JsLt(ret, calculateLiquidationDistance(position, higher))
            /\ args.currentPrice = liquidationPrice => ret = Num(0)

(***************************************************************************)
(* The dashboard.                                                          *)
(***************************************************************************)
\* the step ends a load or a refresh with data, and leaves no client call in flight
SettledWithData ==
    /\ op' \in {"loadDashboard", "refreshData", "loadPortfolioData"}
    /\ ret'.outcome \in {"cached", "fetched"}
    /\ Len(pending') = 0

\* C25: under any interleaving of loadDashboard, refreshData and the completions of
\* their loads, when a load or refresh delivers data and none is pending the data
\* displayed is the one of currentAddress, and the data displayed for the address
\* requested last is never replaced by the answer to a request for an earlier one.
C25_LatestAddressDisplayed ==
    [][/\ SettledWithData => currentData'.address = currentAddress'
       /\ (currentData.address = currentAddress /\ currentAddress' = currentAddress)
              => currentData'.address = currentAddress']_vars

\* the ids of a list of callbacks
Ids(callbacks) == [i \in 1..Len(callbacks) |-> callbacks[i].id]

\* an entry of the key stored less than 30 s before the time t
StoredWithin30s(map, key, t) ==
    key \in DOMAIN map /\ t - map[key].timestamp < 30000

\* C26: loadPortfolioData never returns data cached 30 s or more earlier.  With an
\* entry of the same address and subaccount stored less than 30 s ago it returns that
\* entry's data, calls no client and notifies nobody; otherwise it calls the client,
\* and when the client answers it stores the processed result under the key and
\* notifies every 'portfolio' subscriber before returning it; when the client fails
\* the cache is unchanged and the call fails.
C26_CacheWindow ==
    [][op' = "loadPortfolioData" =>
        LET cacheKey == CacheKey(args'.address, args'.subaccountNumber)
        IN  /\ ret'.outcome \in {"cached", "fetched"} => now' - ret'.data.timestamp < 30000
            /\ Len(pending') >= Len(pending) =>
                   IF StoredWithin30s(cache, cacheKey, now)
                   THEN /\ ret'.outcome = "cached"
                        /\ ret'.data = cache[cacheKey].data
                        /\ ret'.invoked = <<>>
                        /\ UNCHANGED <<pending, cache, subscribers>>
                   ELSE /\ ret'.outcome = "pending"
                        /\ pending' = Append(pending, args')
            /\ Len(pending') < Len(pending) =>
                   /\ ret'.outcome \in {"fetched", "failed"}
                   /\ ret'.outcome = "fetched" =>
                          /\ cacheKey \in DOMAIN cache'
                          /\ cache'[cacheKey].data = ret'.data
                          /\ ret'.invoked = Ids(CallbacksOf(subscribers, "portfolio"))
                   /\ ret'.outcome = "failed" => cache' = cache]_vars

\* C27: notifySubscribers invokes every callback subscribed to the event when the
\* notification starts exactly once, in subscription order, also when a callback
\* throws or unsubscribes itself or another callback meanwhile.
C27_EveryCallbackOnce ==
    op = "notifySubscribers" => ret = Ids(args.callbacks)

\* the interval timers that have not been cleared
ActiveTimers == {i \in 1..Len(timers) : timers[i]}

\* C28: after any sequence of loadDashboard calls the application has at most one
\* active refresh timer and at most one callback subscribed to 'update'.
C28_OneTimerOneSubscriber ==
    /\ Cardinality(ActiveTimers) <= 1
    /\ Len(CallbacksOf(subscribers, "update")) <= 1


\* a returned period lies inside the series, below its peak and covers its samples
WellFormed(p, last) ==
    /\ 0 <= p.startIndex
    /\ p.startIndex < p.endIndex
    /\ p.endIndex <= last
    /\ JsLt(p.troughValue, p.peakValue)
    /\ p.depth = JsSub(p.peakValue, p.troughValue)
    /\ p.duration >= 1
    /\ p.startIndex + p.duration <= p.endIndex

\* C29: every period calculateDrawdownPeriods returns on a series of positive numbers
\* has 0 <= startIndex < endIndex <= last index, troughValue < peakValue,
\* depth = peakValue - troughValue, duration >= 1 and startIndex + duration <= endIndex,
\* also when it is still open at the end of the series; the periods come in increasing
\* index order and each ends no later than the next one starts.
C29_PeriodsWellFormed ==
    OnNumbers("calculateDrawdownPeriods") =>
        /\ \A k \in 1..Len(ret) : WellFormed(ret[k], Len(args.series) - 1)
        /\ \A k \in 1..(Len(ret) - 1) : ret[k].endIndex <= ret[k + 1].startIndex


\* the percentage drawdown of the sample at i: its distance below the running peak
PercentDrawdownAt(v, i) == Rat(DrawdownAt(v, i) * 100, RunningPeak(v, i))

\* C30: on every series of positive numbers the percentage calculateMaxDrawdown
\* returns is at least the percentage drawdown of every sample, (running peak up to
\* i - equity[i]) / (running peak up to i) * 100, also when the largest absolute and
\* the largest percentage drawdown are at different samples.
C30_LargestPercentage ==
    OnNumbers("calculateMaxDrawdown") =>
        \A i \in 1..Len(args.series) :
            JsGe(ret.percentage, PercentDrawdownAt(args.series, i))

====
